---------------------------- MODULE Spec2Model ----------------------------
(***************************************************************************)
(* Model of scripts/lut_editor.py: the SSD1677 LUT editor.  The model state *)
(* is the LUTEditor object: the four per-transition voltage patterns, the  *)
(* ten global timing groups, the frame rate, the five voltage levels, and  *)
(* the widgets the handlers read from and write to.                        *)
(***************************************************************************)
EXTENDS Integers, Sequences, FiniteSets, TLC

VARIABLES
    voltage_patterns,   \* self.voltage_patterns : dict int -> list of names
    timing_groups,      \* self.timing_groups    : list of lists
    frame_rate,         \* self.frame_rate
    voltages,           \* self.voltages         : dict name -> value
    voltage_widgets,    \* per transition: number of step widgets in the container
    timing_widgets,     \* self.timing_widgets[g][i] : text of each Spinbox
    frame_rate_spin,    \* text of self.frame_rate_spin
    voltage_entries,    \* self.voltage_entries[name] : text of each Entry
    timing_label,       \* text of self.timing_label
    preview_text,       \* content of self.preview_text, as a sequence of tokens
    encoded,            \* what the last call of voltage_pattern_to_lut returned
    timed,              \* what the last call of calculate_timing returned
    file,               \* the documents save_to_file has written to the chosen
                        \* file: none, or the one it wrote last
    calls               \* the calls made so far and how each ended, the
                        \* constructor's first

model == <<voltage_patterns, timing_groups, frame_rate, voltages>>

widgets == <<voltage_widgets, timing_widgets, frame_rate_spin, voltage_entries>>

display == <<timing_label, preview_text>>

vars == <<voltage_patterns, timing_groups, frame_rate, voltages,
          voltage_widgets, timing_widgets, frame_rate_spin, voltage_entries,
          timing_label, preview_text, encoded, timed, file, calls>>

\* the last call and how it ended
last == calls[Len(calls)]

\* number of handler calls made since the first state
nops == Len(calls) - 1

-----------------------------------------------------------------------------
(* Bounds of the model checking runs.                                      *)

\* handler calls explored from the constructed editor
MaxOps == 2

\* step indices 0..MaxVoltIdx are offered to remove_voltage / on_voltage_change
MaxVoltIdx == 1

\* seeds of 1..MaxSeedLen names are cycled to build the encoder's input patterns
MaxSeedLen == 3

-----------------------------------------------------------------------------
(* Program constants.                                                      *)

\* "Max 40 steps (10 bytes x 4 steps)"
MaxSteps == 40

\* lut = [0x00] * 112
LutSize == 112

VOLTAGE_OPTIONS == <<"VSS", "VSH1", "VSL", "VSH2">>

VoltageNames == {VOLTAGE_OPTIONS[i] : i \in 1..Len(VOLTAGE_OPTIONS)}

VS_MAP == [c \in 0..3 |-> CASE c = 0 -> "VSS"
                            [] c = 1 -> "VSH1"
                            [] c = 2 -> "VSL"
                            [] c = 3 -> "VSH2"]

\* VS_REVERSE.get(phase, 0) with the codes of VSL and VSH2 exchanged
VS_REVERSE_get_swapped(phase) ==
    CASE phase = "VSH1" -> 1
      [] phase = "VSL"  -> 3
      [] phase = "VSH2" -> 2
      [] OTHER          -> 0

\* VS_REVERSE.get(phase, 3): a name outside VS_REVERSE takes the code of VSH2
VS_REVERSE_get_default_three(phase) ==
    IF \E c \in DOMAIN VS_MAP : VS_MAP[c] = phase
    THEN CHOOSE c \in DOMAIN VS_MAP : VS_MAP[c] = phase
    ELSE 3

\* VS_REVERSE.get(phase, 0)
VS_REVERSE_get(phase) ==
    IF \E c \in DOMAIN VS_MAP : VS_MAP[c] = phase
    THEN CHOOSE c \in DOMAIN VS_MAP : VS_MAP[c] = phase
    ELSE 0

\* the five entries of self.voltage_entries, in creation order
VoltageSettingNames == <<"VGH", "VSH1", "VSH2", "VSL", "VCOM">>

\* A value held where the code expects an int but that is not one: the model of
\* a JSON string found in a numeric field of a loaded document.
NotInt == -1000000

IsInt(v) == v # NotInt

-----------------------------------------------------------------------------
(* Integer helpers: Python's | and << on non-negative ints.                *)

RECURSIVE Pow2(_)
Pow2(n) == IF n = 0 THEN 1 ELSE 2 * Pow2(n - 1)

ShiftLeft(a, n) == a * Pow2(n)

RECURSIVE BitOr(_, _)
BitOr(a, b) ==
    IF a = 0 THEN b
    ELSE IF b = 0 THEN a
    ELSE (IF (a % 2) + (b % 2) > 0 THEN 1 ELSE 0) + 2 * BitOr(a \div 2, b \div 2)

-----------------------------------------------------------------------------
(* voltage_pattern_to_lut                                                  *)

Ok(v) == [ok |-> TRUE, value |-> v]

Raise(e) == [ok |-> FALSE, error |-> e]

\* voltage_pattern_to_lut, or calculate_timing, has not been called yet
NotCalled == [ok |-> FALSE, error |-> "not called"]

\* the inner loop packing the first step of a byte into its lowest bits:
\* "shift = phase_in_byte * 2"
RECURSIVE PackByte_lsb_first(_, _, _, _)
PackByte_lsb_first(pattern, step_idx, phase_in_byte, byte_val) ==
    IF phase_in_byte >= 4 THEN <<byte_val, step_idx>>
    ELSE IF step_idx < Len(pattern)
         THEN PackByte_lsb_first(pattern, step_idx + 1, phase_in_byte + 1,
                                 BitOr(byte_val,
                                       ShiftLeft(VS_REVERSE_get(pattern[step_idx + 1]),
                                                 phase_in_byte * 2)))
         ELSE <<byte_val, step_idx>>

\* the inner "for phase_in_byte in range(4)" loop, from phase_in_byte on:
\* returns the byte value and the step index reached
RECURSIVE PackByte(_, _, _, _)
PackByte(pattern, step_idx, phase_in_byte, byte_val) ==
    IF phase_in_byte >= 4 THEN <<byte_val, step_idx>>
    ELSE IF step_idx < Len(pattern)
         THEN PackByte(pattern, step_idx + 1, phase_in_byte + 1,
                       BitOr(byte_val,
                             ShiftLeft(VS_REVERSE_get(pattern[step_idx + 1]),
                                       6 - (phase_in_byte * 2))))
         ELSE <<byte_val, step_idx>>       \* break

\* the loop of one transition with the bound "byte_idx <= 10"
RECURSIVE EncodePattern_eleven(_, _, _, _, _)
EncodePattern_eleven(lut, pattern, vs_start, byte_idx, step_idx) ==
    IF step_idx < Len(pattern) /\ byte_idx <= 10
    THEN LET packed == PackByte(pattern, step_idx, 0, 0)
         IN  EncodePattern_eleven(
                 [lut EXCEPT ![vs_start + byte_idx + 1] = packed[1]],
                 pattern, vs_start, byte_idx + 1, packed[2])
    ELSE lut

\* the "while step_idx < len(pattern) and byte_idx < 10" loop of one transition
RECURSIVE EncodePattern(_, _, _, _, _)
EncodePattern(lut, pattern, vs_start, byte_idx, step_idx) ==
    IF step_idx < Len(pattern) /\ byte_idx < 10
    THEN LET packed == PackByte(pattern, step_idx, 0, 0)
         IN  EncodePattern([lut EXCEPT ![vs_start + byte_idx + 1] = packed[1]],
                           pattern, vs_start, byte_idx + 1, packed[2])
    ELSE lut

\* the "for trans_idx in range(4)" loop; self.voltage_patterns[trans_idx]
\* raises KeyError when the key is absent
RECURSIVE EncodeTransitions(_, _, _)
EncodeTransitions(lut, vp, trans_idx) ==
    IF trans_idx >= 4 THEN Ok(lut)
    ELSE IF trans_idx \notin DOMAIN vp THEN Raise("KeyError")
    ELSE EncodeTransitions(EncodePattern(lut, vp[trans_idx], trans_idx * 10, 0, 0),
                           vp, trans_idx + 1)

\* the loop of one group storing each field "& 0xFF"
RECURSIVE EncodeGroup_masked(_, _, _, _)
EncodeGroup_masked(lut, tg, group_idx, i) ==
    IF i >= 5 THEN Ok(lut)
    ELSE IF group_idx + 1 > Len(tg) THEN Raise("IndexError")
    ELSE IF i + 1 > Len(tg[group_idx + 1]) THEN Raise("IndexError")
    ELSE LET base == 50 + group_idx * 5
         IN  EncodeGroup_masked(
                 [lut EXCEPT ![base + i + 1] = tg[group_idx + 1][i + 1] % 256],
                 tg, group_idx, i + 1)

\* "for i in range(5): lut[base + i] = self.timing_groups[group_idx][i]", from
\* field i on; an absent group or field raises IndexError
RECURSIVE EncodeGroup(_, _, _, _)
EncodeGroup(lut, tg, group_idx, i) ==
    IF i >= 5 THEN Ok(lut)
    ELSE IF group_idx + 1 > Len(tg) THEN Raise("IndexError")
    ELSE IF i + 1 > Len(tg[group_idx + 1]) THEN Raise("IndexError")
    ELSE LET base == 50 + group_idx * 5
         IN  EncodeGroup([lut EXCEPT ![base + i + 1] = tg[group_idx + 1][i + 1]],
                         tg, group_idx, i + 1)

\* "for group_idx in range(10): ...", from group group_idx on
RECURSIVE EncodeTiming(_, _, _)
EncodeTiming(lut, tg, group_idx) ==
    IF group_idx >= 10 THEN Ok(lut)
    ELSE LET r == EncodeGroup(lut, tg, group_idx, 0)
         IN  IF ~r.ok THEN r ELSE EncodeTiming(r.value, tg, group_idx + 1)

\* the frame rate loop as "for i in range(4)"
RECURSIVE EncodeFrameRate_four(_, _, _)
EncodeFrameRate_four(lut, fr, i) ==
    IF i >= 4 THEN lut
    ELSE EncodeFrameRate_four([lut EXCEPT ![100 + i + 1] = fr], fr, i + 1)

\* "for i in range(5): lut[100 + i] = self.frame_rate"
RECURSIVE EncodeFrameRate(_, _, _)
EncodeFrameRate(lut, fr, i) ==
    IF i >= 5 THEN lut
    ELSE EncodeFrameRate([lut EXCEPT ![100 + i + 1] = fr], fr, i + 1)

\* the five assignments with VSH2 and VSL stored in each other's place
RECURSIVE EncodeVoltages_swapped(_, _, _)
EncodeVoltages_swapped(lut, vs, k) ==
    LET names == <<"VGH", "VSH1", "VSL", "VSH2", "VCOM">>
    IN  IF k >= 5 THEN Ok(lut)
        ELSE IF names[k + 1] \notin DOMAIN vs THEN Raise("KeyError")
        ELSE EncodeVoltages_swapped([lut EXCEPT ![105 + k + 1] = vs[names[k + 1]]],
                                    vs, k + 1)

\* "lut[105] = self.voltages["VGH"]" ... "lut[109] = self.voltages["VCOM"]";
\* an absent name raises KeyError
RECURSIVE EncodeVoltages(_, _, _)
EncodeVoltages(lut, vs, k) ==
    IF k >= 5 THEN Ok(lut)
    ELSE IF VoltageSettingNames[k + 1] \notin DOMAIN vs THEN Raise("KeyError")
    ELSE EncodeVoltages([lut EXCEPT ![105 + k + 1] = vs[VoltageSettingNames[k + 1]]],
                        vs, k + 1)

\* voltage_pattern_to_lut starting from "lut = [0xFF] * 112"
voltage_pattern_to_lut_filled(vp, tg, fr, vs) ==
    LET lut0 == [i \in 1..LutSize |-> 255]
        AfterTiming(r2) ==
            IF ~r2.ok THEN r2
            ELSE EncodeVoltages(EncodeFrameRate(r2.value, fr, 0), vs, 0)
        AfterPatterns(r1) ==
            IF ~r1.ok THEN r1 ELSE AfterTiming(EncodeTiming(r1.value, tg, 0))
    IN  AfterPatterns(EncodeTransitions(lut0, vp, 0))

\* LUTEditor.voltage_pattern_to_lut: Ok(the list of 112 entries) or the exception
voltage_pattern_to_lut(vp, tg, fr, vs) ==
    LET lut0 == [i \in 1..LutSize |-> 0]
        AfterTiming(r2) ==
            IF ~r2.ok THEN r2
            ELSE EncodeVoltages(EncodeFrameRate(r2.value, fr, 0), vs, 0)
        AfterPatterns(r1) ==
            IF ~r1.ok THEN r1 ELSE AfterTiming(EncodeTiming(r1.value, tg, 0))
    IN  AfterPatterns(EncodeTransitions(lut0, vp, 0))

-----------------------------------------------------------------------------
(* Text conversions.  Widget texts are strings over the characters         *)
(* 0-9, a-f, A-F, x, X, +, -, space and other letters.                     *)

Digits == "0123456789"

HexDigitsUpper == "0123456789ABCDEF"

HexDigitsLower == "0123456789abcdef"

\* position (0-based) of character c in the string s, or -1
RECURSIVE IndexOf(_, _, _)
IndexOf(s, c, k) ==
    IF k >= Len(s) THEN -1
    ELSE IF SubSeq(s, k + 1, k + 1) = c THEN k
    ELSE IndexOf(s, c, k + 1)

DigitVal(c) == IndexOf(Digits, c, 0)

HexDigitVal(c) ==
    IF IndexOf(HexDigitsUpper, c, 0) >= 0 THEN IndexOf(HexDigitsUpper, c, 0)
    ELSE IndexOf(HexDigitsLower, c, 0)

\* str.strip(): leading and trailing spaces removed
RECURSIVE StripLeft(_)
StripLeft(s) ==
    IF Len(s) > 0 /\ Head(s) = " " THEN StripLeft(Tail(s)) ELSE s

RECURSIVE StripRight(_)
StripRight(s) ==
    IF Len(s) > 0 /\ SubSeq(s, Len(s), Len(s)) = " "
    THEN StripRight(SubSeq(s, 1, Len(s) - 1))
    ELSE s

Strip(s) == StripRight(StripLeft(s))

\* value of a non-empty run of digits in the given base, or -1 when a character
\* is not a digit of that base
RECURSIVE DigitsValue(_, _, _)
DigitsValue(s, base, acc) ==
    IF Len(s) = 0 THEN acc
    ELSE LET d == IF base = 16 THEN HexDigitVal(Head(s)) ELSE DigitVal(Head(s))
         IN  IF d < 0 THEN -1 ELSE DigitsValue(Tail(s), base, acc * base + d)

\* int(text): surrounding spaces are ignored, one sign is allowed, then decimal
\* digits only; anything else raises ValueError
ParseInt(text) ==
    LET s    == Strip(text)
        neg  == Len(s) > 0 /\ Head(s) = "-"
        sgn  == Len(s) > 0 /\ (Head(s) = "-" \/ Head(s) = "+")
        body == IF sgn THEN Tail(s) ELSE s
        v    == IF Len(body) = 0 THEN -1 ELSE DigitsValue(body, 10, 0)
    IN  IF v < 0 THEN Raise("ValueError")
        ELSE Ok(IF neg THEN 0 - v ELSE v)

\* int(text, 16) for a text that starts with 0x or 0X
ParseHex(text) ==
    LET s    == Strip(text)
        body == SubSeq(s, 3, Len(s))
        v    == IF Len(body) = 0 THEN -1 ELSE DigitsValue(body, 16, 0)
    IN  IF v < 0 THEN Raise("ValueError") ELSE Ok(v)

StartsWith(s, prefix) ==
    Len(s) >= Len(prefix) /\ SubSeq(s, 1, Len(prefix)) = prefix

\* digits of n >= 0 in the given base, most significant first, "" for 0
RECURSIVE ToDigits(_, _, _)
ToDigits(n, base, alphabet) ==
    IF n = 0 THEN ""
    ELSE ToDigits(n \div base, base, alphabet)
            \o SubSeq(alphabet, (n % base) + 1, (n % base) + 1)

\* the text a loaded JSON string shows as
NotIntText == "fast"

\* str(v)
Str(v) ==
    IF ~IsInt(v) THEN NotIntText
    ELSE IF v = 0 THEN "0"
    ELSE IF v < 0 THEN "-" \o ToDigits(0 - v, 10, Digits)
    ELSE ToDigits(v, 10, Digits)

\* f"{v:02X}" for an int v: upper-case hex, zero-padded to width 2, the sign
\* counting in the width
Hex02(v) ==
    LET a == IF v < 0 THEN 0 - v ELSE v
        h == IF a = 0 THEN "0" ELSE ToDigits(a, 16, HexDigitsUpper)
    IN  IF v < 0 THEN "-" \o h
        ELSE IF Len(h) < 2 THEN "0" \o h
        ELSE h

\* val & 0xFF: the low eight bits of the two's complement of val
And0xFF(val) == val % 256

-----------------------------------------------------------------------------
(* Python float arithmetic (IEEE 754 binary64, round to nearest, ties to   *)
(* even) on the non-negative values calculate_timing computes.  Naturals   *)
(* wider than 32 bits are sequences of limbs, the least                    *)
(* significant first; a float is [m |-> limbs, e |-> exponent], of value   *)
(* m * 2^e.                                                                *)

LimbBits == 15

LimbBase == Pow2(LimbBits)

\* bits of the significand of a binary64 float
MantBits == 53

RECURSIVE BNorm(_)
BNorm(a) ==
    IF Len(a) > 0 /\ a[Len(a)] = 0 THEN BNorm(SubSeq(a, 1, Len(a) - 1)) ELSE a

RECURSIVE BFromInt(_)
BFromInt(n) ==
    IF n = 0 THEN <<>> ELSE <<n % LimbBase>> \o BFromInt(n \div LimbBase)

RECURSIVE BToInt(_)
BToInt(a) ==
    IF Len(a) = 0 THEN 0 ELSE a[1] + LimbBase * BToInt(Tail(a))

RECURSIVE BAddCarry(_, _, _)
BAddCarry(a, b, carry) ==
    IF Len(a) = 0 /\ Len(b) = 0
    THEN (IF carry = 0 THEN <<>> ELSE <<carry>>)
    ELSE LET x == IF Len(a) = 0 THEN 0 ELSE a[1]
             y == IF Len(b) = 0 THEN 0 ELSE b[1]
             t == x + y + carry
         IN  <<t % LimbBase>>
                \o BAddCarry(IF Len(a) = 0 THEN a ELSE Tail(a),
                             IF Len(b) = 0 THEN b ELSE Tail(b),
                             t \div LimbBase)

BAdd(a, b) == BAddCarry(a, b, 0)

\* a * d for one limb d
RECURSIVE BMulLimb(_, _, _)
BMulLimb(a, d, carry) ==
    IF Len(a) = 0 THEN (IF carry = 0 THEN <<>> ELSE <<carry>>)
    ELSE LET t == a[1] * d + carry
         IN  <<t % LimbBase>> \o BMulLimb(Tail(a), d, t \div LimbBase)

RECURSIVE BMul(_, _)
BMul(a, b) ==
    IF Len(b) = 0 THEN <<>>
    ELSE BNorm(BAdd(BMulLimb(a, b[1], 0), <<0>> \o BMul(a, Tail(b))))

\* number of bits of n >= 0
RECURSIVE IntBitLen(_)
IntBitLen(n) == IF n = 0 THEN 0 ELSE 1 + IntBitLen(n \div 2)

BBitLen(a) ==
    IF Len(a) = 0 THEN 0 ELSE LimbBits * (Len(a) - 1) + IntBitLen(a[Len(a)])

\* bit i (0 = least significant) of a
BTestBit(a, i) ==
    LET limb == (i \div LimbBits) + 1
    IN  limb <= Len(a) /\ (a[limb] \div Pow2(i % LimbBits)) % 2 = 1

\* a mod 2^k = 0
BLowZero(a, k) == \A i \in 0..(k - 1) : ~BTestBit(a, i)

\* floor(a / 2^k)
BShr(a, k) ==
    LET drop == k \div LimbBits
        r    == k % LimbBits
        rest == IF drop >= Len(a) THEN <<>> ELSE SubSeq(a, drop + 1, Len(a))
    IN  BNorm([i \in 1..Len(rest) |->
                  (rest[i] \div Pow2(r))
                  + (IF i < Len(rest)
                     THEN (rest[i + 1] % Pow2(r)) * Pow2(LimbBits - r)
                     ELSE 0)])

\* a * 2^k
BShl(a, k) ==
    BMul([i \in 1..(k \div LimbBits) |-> 0] \o a, BFromInt(Pow2(k % LimbBits)))

\* <<floor(a / d), a mod d>> for 0 < d < LimbBase, by long division from the
\* most significant limb
RECURSIVE BDivLimb(_, _, _, _)
BDivLimb(a, d, k, rem) ==
    IF k = 0 THEN <<<<>>, rem>>
    ELSE LET t    == rem * LimbBase + a[k]
             rest == BDivLimb(a, d, k - 1, t % d)
         IN  <<rest[1] \o <<t \div d>>, rest[2]>>

BDivMod(a, d) ==
    LET r == BDivLimb(a, d, Len(a), 0) IN <<BNorm(r[1]), r[2]>>

\* the float nearest to M * 2^e (+ a fraction of the last unit when sticky)
FRound(M, e, sticky) ==
    LET L == BBitLen(M)
    IN  IF L <= MantBits THEN [m |-> M, e |-> e]
        ELSE LET k       == L - MantBits
                 q       == BShr(M, k)
                 half    == BTestBit(M, k - 1)
                 exact   == BLowZero(M, k - 1) /\ ~sticky
                 roundUp == half /\ (~exact \/ BTestBit(q, 0))
             IN  [m |-> IF roundUp THEN BAdd(q, <<1>>) ELSE q, e |-> e + k]

\* float(n) for an int 0 <= n < 2^53
FFromInt(n) == [m |-> BFromInt(n), e |-> 0]

\* x * y
FMul(x, y) == FRound(BMul(x.m, y.m), x.e + y.e, FALSE)

\* a / b for ints a >= 0, b > 0 (true division, correctly rounded)
FDivInt(a, b) ==
    LET qr == BDivMod(BShl(BFromInt(a), 5 * LimbBits), b)
    IN  FRound(qr[1], 0 - (5 * LimbBits), qr[2] # 0)

\* int(x) for a float x >= 0: the integer part
FTrunc(x) ==
    IF x.e >= 0 THEN BToInt(BShl(x.m, x.e)) ELSE BToInt(BShr(x.m, 0 - x.e))

-----------------------------------------------------------------------------
(* calculate_timing                                                        *)

\* sum(group[:4]): TypeError when one of the summed fields is not an int
RECURSIVE SumFirst4(_, _, _)
SumFirst4(group, k, acc) ==
    IF k > 4 \/ k > Len(group) THEN Ok(acc)
    ELSE IF ~IsInt(group[k]) THEN Raise("TypeError")
    ELSE SumFirst4(group, k + 1, acc + group[k])

\* the loop adding "tp_sum * rp": a repeat count of 0 counted as no pass
RECURSIVE TotalFrames_no_repeat(_, _, _)
TotalFrames_no_repeat(tg, k, total_frames) ==
    IF k > Len(tg) THEN Ok(total_frames)
    ELSE LET group  == tg[k]
             tp_sum == SumFirst4(group, 1, 0)
         IN  IF ~tp_sum.ok THEN tp_sum
             ELSE IF Len(group) < 5 THEN Raise("IndexError")
             ELSE IF ~IsInt(group[5]) THEN Raise("TypeError")
             ELSE TotalFrames_no_repeat(tg, k + 1,
                                        total_frames + tp_sum.value * group[5])

\* the loop adding "(tp_sum + 1) * (rp + 1)": every group counted as at
\* least one frame
RECURSIVE TotalFrames_one_more(_, _, _)
TotalFrames_one_more(tg, k, total_frames) ==
    IF k > Len(tg) THEN Ok(total_frames)
    ELSE LET group  == tg[k]
             tp_sum == SumFirst4(group, 1, 0)
         IN  IF ~tp_sum.ok THEN tp_sum
             ELSE IF Len(group) < 5 THEN Raise("IndexError")
             ELSE IF ~IsInt(group[5]) THEN Raise("TypeError")
             ELSE TotalFrames_one_more(
                      tg, k + 1,
                      total_frames + (tp_sum.value + 1) * (group[5] + 1))

\* "for group in self.timing_groups: tp_sum = sum(group[:4]); rp = group[4];
\*  total_frames += tp_sum * (rp + 1)", from the k-th group on
RECURSIVE TotalFrames(_, _, _)
TotalFrames(tg, k, total_frames) ==
    IF k > Len(tg) THEN Ok(total_frames)
    ELSE LET group  == tg[k]
             tp_sum == SumFirst4(group, 1, 0)
         IN  IF ~tp_sum.ok THEN tp_sum
             ELSE IF Len(group) < 5 THEN Raise("IndexError")
             ELSE IF ~IsInt(group[5]) THEN Raise("TypeError")
             ELSE TotalFrames(tg, k + 1,
                              total_frames + tp_sum.value * (group[5] + 1))

\* the estimate with "ms_per_frame = 2500 // self.frame_rate": the integer
\* quotient
RefreshTime_int_division(total_frames, fr) ==
    LET a == IF total_frames < 0 THEN 0 - total_frames ELSE total_frames
        ms == IF fr > 0 THEN (IF 2500 \div fr < 10 THEN 10 ELSE 2500 \div fr)
              ELSE 50
        Signed(r) == IF total_frames < 0 THEN 0 - r ELSE r
    IN  Signed(FTrunc(FMul(FFromInt(a * ms), FDivInt(11, 10))))

\* int(total_frames * ms_per_frame * 1.1), with ms_per_frame = 2500 / frame_rate
\* (a float) when frame_rate > 0 and 50 otherwise, replaced by 10 when below 10
RefreshTime(total_frames, fr) ==
    LET a == IF total_frames < 0 THEN 0 - total_frames ELSE total_frames
        Product(ratio) ==
            IF fr > 0 /\ ~(FTrunc(ratio) < 10) THEN FMul(FFromInt(a), ratio)
            ELSE FFromInt(a * (IF fr > 0 THEN 10 ELSE 50))
        Signed(r) == IF total_frames < 0 THEN 0 - r ELSE r
    IN  Signed(FTrunc(FMul(Product(FDivInt(2500, fr)), FDivInt(11, 10))))

\* LUTEditor.calculate_timing: Ok(<<total_frames, refresh_time>>) or the exception
calculate_timing(tg, fr) ==
    LET Timed(total) ==
            IF ~total.ok THEN total
            ELSE IF ~IsInt(fr) THEN Raise("TypeError")
            ELSE Ok(<<total.value, RefreshTime(total.value, fr)>>)
    IN  Timed(TotalFrames(tg, 1, 0))

-----------------------------------------------------------------------------
(* update_preview                                                          *)

\* the arrow of the source texts is written "->" here
TRANSITION_NAMES ==
    <<"Black -> Black", "Black -> White", "White -> Black", "White -> White">>

\* sep.join(seq)
RECURSIVE Join(_, _)
Join(seq, sep) ==
    IF Len(seq) = 0 THEN ""
    ELSE IF Len(seq) = 1 THEN seq[1]
    ELSE LET h == Len(seq) \div 2
         IN  Join(SubSeq(seq, 1, h), sep) \o sep
                 \o Join(SubSeq(seq, h + 1, Len(seq)), sep)

\* f"0x{b:02X}," for the entries lut[from .. from + n - 1] (0-based), one token
\* each; ValueError when an entry is not an int
RECURSIVE ByteTokens(_, _, _)
ByteTokens(lut, from, n) ==
    IF n = 0 THEN Ok(<<>>)
    ELSE IF ~IsInt(lut[from + 1]) THEN Raise("ValueError")
    ELSE LET Before(rest) ==
                 IF ~rest.ok THEN rest
                 ELSE Ok(<<"0x" \o Hex02(lut[from + 1])>> \o rest.value)
         IN  Before(ByteTokens(lut, from + 1, n - 1))

\* the lines of the four VS blocks, from transition trans_idx on
RECURSIVE VSBlockTokens(_, _, _)
VSBlockTokens(lut, vp, trans_idx) ==
    IF trans_idx >= 4 THEN Ok(<<>>)
    ELSE LET Block(bytes, rest) ==
                 IF ~bytes.ok THEN bytes
                 ELSE IF ~rest.ok THEN rest
                 ELSE Ok(<<"// " \o TRANSITION_NAMES[trans_idx + 1] \o ": ["
                              \o Join(vp[trans_idx], "->") \o "]">>
                         \o bytes.value \o rest.value)
         IN  Block(ByteTokens(lut, trans_idx * 10, 10),
                   VSBlockTokens(lut, vp, trans_idx + 1))

\* the comment that ends the line of timing group group_idx
TimingComment(timing, group_idx) ==
    LET tp_sum == timing[1] + timing[2] + timing[3] + timing[4]
    IN  "// G" \o Str(group_idx) \o ": A=" \o Str(timing[1])
            \o " B=" \o Str(timing[2]) \o " C=" \o Str(timing[3])
            \o " D=" \o Str(timing[4]) \o " RP=" \o Str(timing[5])
            \o (IF tp_sum > 0
                THEN " (" \o Str(tp_sum * (timing[5] + 1)) \o " frames)"
                ELSE "")

\* the lines of the ten timing groups, from group group_idx on
RECURSIVE TimingTokens(_, _, _)
TimingTokens(lut, tg, group_idx) ==
    IF group_idx >= 10 THEN Ok(<<>>)
    ELSE LET Line(bytes, rest) ==
                 IF ~bytes.ok THEN bytes
                 ELSE IF ~rest.ok THEN rest
                 ELSE Ok(bytes.value
                         \o <<TimingComment(tg[group_idx + 1], group_idx)>>
                         \o rest.value)
         IN  Line(ByteTokens(lut, 50 + group_idx * 5, 5),
                  TimingTokens(lut, tg, group_idx + 1))

\* the C array text with the bytes of the voltages under "Frame rate" and the
\* bytes of the frame rate under "Voltages"
CArrayText_voltages_first(lut, vp, tg) ==
    LET Lines(vsb, l4, tp, fr, vs) ==
            IF ~vsb.ok THEN vsb
            ELSE IF ~l4.ok THEN l4
            ELSE IF ~tp.ok THEN tp
            ELSE IF ~fr.ok THEN fr
            ELSE IF ~vs.ok THEN vs
            ELSE Ok(<<"const unsigned char lut_custom[] PROGMEM = {",
                      "// VS L0-L3 (voltage patterns per transition)">>
                    \o vsb.value
                    \o <<"// L4 (VCOM)">> \o l4.value
                    \o <<"// TP/RP groups (global timing)">> \o tp.value
                    \o <<"// Frame rate">> \o fr.value
                    \o <<"// Voltages (VGH, VSH1, VSH2, VSL, VCOM)">> \o vs.value
                    \o <<"// Reserved", "0x00", "0x00", "};">>)
    IN  Lines(VSBlockTokens(lut, vp, 0), ByteTokens(lut, 40, 10),
              TimingTokens(lut, tg, 0), ByteTokens(lut, 105, 5),
              ByteTokens(lut, 100, 5))

\* the C array text, as its sequence of tokens: each comment, each byte
\* literal (without its comma) and the opening and closing lines
CArrayText(lut, vp, tg) ==
    LET Lines(vsb, l4, tp, fr, vs) ==
            IF ~vsb.ok THEN vsb
            ELSE IF ~l4.ok THEN l4
            ELSE IF ~tp.ok THEN tp
            ELSE IF ~fr.ok THEN fr
            ELSE IF ~vs.ok THEN vs
            ELSE Ok(<<"const unsigned char lut_custom[] PROGMEM = {",
                      "// VS L0-L3 (voltage patterns per transition)">>
                    \o vsb.value
                    \o <<"// L4 (VCOM)">> \o l4.value
                    \o <<"// TP/RP groups (global timing)">> \o tp.value
                    \o <<"// Frame rate">> \o fr.value
                    \o <<"// Voltages (VGH, VSH1, VSH2, VSL, VCOM)">> \o vs.value
                    \o <<"// Reserved", "0x00", "0x00", "};">>)
    IN  Lines(VSBlockTokens(lut, vp, 0), ByteTokens(lut, 40, 10),
              TimingTokens(lut, tg, 0), ByteTokens(lut, 100, 5),
              ByteTokens(lut, 105, 5))

\* the text of the timing label
TimingLabelText(timing) ==
    "Total frames: " \o Str(timing[1]) \o " | Est. time: ~"
        \o Str(timing[2]) \o "ms"

\* LUTEditor.update_preview on the model <<vp, tg, fr, vs>>: the texts the two
\* display widgets hold afterwards, given the texts lbl and txt they hold
\* before, the exception that ended it ("" for none) and what its calls of
\* voltage_pattern_to_lut and calculate_timing returned (tmd when the first
\* raised, so that the second was not made).  The label is set
\* before the C array is built, so an exception raised while building the
\* array leaves a new label beside the old array.
update_preview(vp, tg, fr, vs, lbl, txt, tmd) ==
    LET Insert(lut, timing, label, output) ==
            IF ~output.ok
            THEN [timing_label |-> label, preview_text |-> txt,
                  error |-> output.error, encoded |-> lut, timed |-> timing]
            ELSE [timing_label |-> label, preview_text |-> output.value,
                  error |-> "", encoded |-> lut, timed |-> timing]
        Show(lut, timing) ==
            IF ~lut.ok
            THEN [timing_label |-> lbl, preview_text |-> txt,
                  error |-> lut.error, encoded |-> lut, timed |-> tmd]
            ELSE IF ~timing.ok
            THEN [timing_label |-> lbl, preview_text |-> txt,
                  error |-> timing.error, encoded |-> lut, timed |-> timing]
            ELSE Insert(lut, timing, TimingLabelText(timing.value),
                        CArrayText(lut.value, vp, tg))
    IN  Show(voltage_pattern_to_lut(vp, tg, fr, vs), calculate_timing(tg, fr))

-----------------------------------------------------------------------------
(* The editor object.  Each handler is a function from the editor's state   *)
(* (a record of the fields and widget contents) to its state afterwards;   *)
(* the field "result" tells how the call ended: "ok", "noop" (the guard of *)
(* the handler was false), "cancelled", "loaded", "failed" (load_from_file *)
(* reported the error) or the name of the exception that escaped it.       *)

SetResult(s, r) == [s EXCEPT !.result = r]

\* self.update_preview() at the end of a handler
WithPreview(s) ==
    LET Shown(p) ==
            [s EXCEPT !.timing_label = p.timing_label,
                      !.preview_text = p.preview_text,
                      !.encoded = p.encoded,
                      !.timed = p.timed,
                      !.result = IF p.error = "" THEN "ok" ELSE p.error]
    IN  Shown(update_preview(s.voltage_patterns, s.timing_groups, s.frame_rate,
                             s.voltages, s.timing_label, s.preview_text, s.timed))

\* LUTEditor.reload_voltage_pattern: one step widget per pattern step
reload_voltage_pattern(s, trans_idx) ==
    IF trans_idx \notin DOMAIN s.voltage_patterns
    THEN [s EXCEPT !.voltage_widgets[trans_idx] = 0, !.result = "KeyError"]
    ELSE [s EXCEPT !.voltage_widgets[trans_idx] =
                        Len(s.voltage_patterns[trans_idx]),
                   !.result = "ok"]

\* the patterns, timing groups, frame rate and voltages of LUTEditor.__init__
InitVoltagePatterns ==
    [t \in 0..3 |-> CASE t = 0 -> <<"VSS", "VSH1", "VSS", "VSH1">>
                      [] t = 1 -> <<"VSL", "VSL", "VSL", "VSS">>
                      [] t = 2 -> <<"VSH1", "VSS", "VSH1", "VSS">>
                      [] t = 3 -> <<"VSS", "VSL", "VSS", "VSL">>]

InitTimingGroups ==
    [g \in 1..10 |-> CASE g = 1 -> <<4, 4, 0, 0, 0>>
                       [] g = 2 -> <<2, 2, 0, 0, 0>>
                       [] OTHER -> <<0, 0, 0, 0, 0>>]

InitFrameRate == 136

InitVoltages ==
    [n \in {"VGH", "VSH1", "VSH2", "VSL", "VCOM"} |->
        CASE n = "VGH"  -> 23
          [] n = "VSH1" -> 65
          [] n = "VSH2" -> 168
          [] n = "VSL"  -> 50
          [] n = "VCOM" -> 48]

\* LUTEditor.__init__: the fields, then create_widgets, then update_preview
Constructed ==
    WithPreview(
        [voltage_patterns |-> InitVoltagePatterns,
         timing_groups    |-> InitTimingGroups,
         frame_rate       |-> InitFrameRate,
         voltages         |-> InitVoltages,
         voltage_widgets  |-> [t \in 0..3 |-> Len(InitVoltagePatterns[t])],
         timing_widgets   |-> [g \in 1..10 |->
                                 [i \in 1..5 |-> Str(InitTimingGroups[g][i])]],
         frame_rate_spin  |-> Str(InitFrameRate),
         voltage_entries  |-> [n \in DOMAIN InitVoltages |->
                                 "0x" \o Hex02(InitVoltages[n])],
         timing_label     |-> "Calculating...",
         preview_text     |-> <<>>,
         encoded          |-> NotCalled,
         timed            |-> NotCalled,
         file             |-> <<>>,
         result           |-> "ok"])

\* add_voltage with the guard "len(...) <= 40"
add_voltage_past_cap(s, trans_idx) ==
    IF trans_idx \notin DOMAIN s.voltage_patterns THEN SetResult(s, "KeyError")
    ELSE IF Len(s.voltage_patterns[trans_idx]) <= MaxSteps
    THEN LET s1 == [s EXCEPT !.voltage_patterns[trans_idx] = Append(@, "VSS")]
         IN  WithPreview(reload_voltage_pattern(s1, trans_idx))
    ELSE SetResult(s, "noop")

\* add_voltage with append("VSL")
add_voltage_appends_vsl(s, trans_idx) ==
    IF trans_idx \notin DOMAIN s.voltage_patterns THEN SetResult(s, "KeyError")
    ELSE IF Len(s.voltage_patterns[trans_idx]) < MaxSteps
    THEN LET s1 == [s EXCEPT !.voltage_patterns[trans_idx] = Append(@, "VSL")]
         IN  WithPreview(reload_voltage_pattern(s1, trans_idx))
    ELSE SetResult(s, "noop")

\* LUTEditor.add_voltage
add_voltage(s, trans_idx) ==
    IF trans_idx \notin DOMAIN s.voltage_patterns THEN SetResult(s, "KeyError")
    ELSE IF Len(s.voltage_patterns[trans_idx]) < MaxSteps
    THEN LET s1 == [s EXCEPT !.voltage_patterns[trans_idx] = Append(@, "VSS")]
         IN  WithPreview(reload_voltage_pattern(s1, trans_idx))
    ELSE SetResult(s, "noop")

\* list.pop(): the last step is removed whatever volt_idx is
Pop_last(pattern, volt_idx) ==
    SubSeq(pattern, 1, Len(pattern) - 1)

\* list.pop(volt_idx) for volt_idx >= 0
Pop(pattern, volt_idx) ==
    SubSeq(pattern, 1, volt_idx) \o SubSeq(pattern, volt_idx + 2, Len(pattern))

\* remove_voltage with the guard "len(...) > 0"
remove_voltage_to_empty(s, trans_idx, volt_idx) ==
    IF trans_idx \notin DOMAIN s.voltage_patterns THEN SetResult(s, "KeyError")
    ELSE IF Len(s.voltage_patterns[trans_idx]) > 0
    THEN IF volt_idx >= Len(s.voltage_patterns[trans_idx])
         THEN SetResult(s, "IndexError")
         ELSE LET s1 == [s EXCEPT !.voltage_patterns[trans_idx] =
                                        Pop(@, volt_idx)]
              IN  WithPreview(reload_voltage_pattern(s1, trans_idx))
    ELSE SetResult(s, "noop")

\* LUTEditor.remove_voltage
remove_voltage(s, trans_idx, volt_idx) ==
    IF trans_idx \notin DOMAIN s.voltage_patterns THEN SetResult(s, "KeyError")
    ELSE IF Len(s.voltage_patterns[trans_idx]) > 1
    THEN IF volt_idx >= Len(s.voltage_patterns[trans_idx])
         THEN SetResult(s, "IndexError")
         ELSE LET s1 == [s EXCEPT !.voltage_patterns[trans_idx] =
                                        Pop(@, volt_idx)]
              IN  WithPreview(reload_voltage_pattern(s1, trans_idx))
    ELSE SetResult(s, "noop")

\* on_voltage_change that assigns the name to step volt_idx of every pattern
on_voltage_change_every_transition(s, trans_idx, volt_idx, selected) ==
    IF volt_idx < s.voltage_widgets[trans_idx]
    THEN IF trans_idx \notin DOMAIN s.voltage_patterns
         THEN SetResult(s, "KeyError")
         ELSE IF volt_idx >= Len(s.voltage_patterns[trans_idx])
         THEN SetResult(s, "IndexError")
         ELSE WithPreview([s EXCEPT !.voltage_patterns =
                  [u \in DOMAIN @ |->
                      IF volt_idx < Len(@[u])
                      THEN [@[u] EXCEPT ![volt_idx + 1] = selected]
                      ELSE @[u]]])
    ELSE SetResult(s, "noop")

\* on_voltage_change that changes the last step when volt_idx is beyond it
on_voltage_change_clamped(s, trans_idx, volt_idx, selected) ==
    IF trans_idx \notin DOMAIN s.voltage_patterns THEN SetResult(s, "KeyError")
    ELSE IF Len(s.voltage_patterns[trans_idx]) = 0 THEN SetResult(s, "noop")
    ELSE IF volt_idx >= Len(s.voltage_patterns[trans_idx])
    THEN WithPreview([s EXCEPT !.voltage_patterns[trans_idx][
                                   Len(s.voltage_patterns[trans_idx])] = selected])
    ELSE WithPreview([s EXCEPT !.voltage_patterns[trans_idx][volt_idx + 1] =
                                   selected])

\* LUTEditor.on_voltage_change, the combobox of the step showing the name
\* the user selected
on_voltage_change(s, trans_idx, volt_idx, selected) ==
    IF volt_idx < s.voltage_widgets[trans_idx]
    THEN IF trans_idx \notin DOMAIN s.voltage_patterns
         THEN SetResult(s, "KeyError")
         ELSE IF volt_idx >= Len(s.voltage_patterns[trans_idx])
         THEN SetResult(s, "IndexError")
         ELSE WithPreview([s EXCEPT !.voltage_patterns[trans_idx][volt_idx + 1] =
                                        selected])
    ELSE SetResult(s, "noop")


\* "for i in range(5): try: val = int(entries[i].get() or 0);
\*  self.timing_groups[group_idx][i] = val; except ValueError: pass", from
\* field i on; the assignment raises IndexError when the group or the field
\* is absent
RECURSIVE TimingFromEntries(_, _, _)
TimingFromEntries(s, group_idx, i) ==
    IF i >= 5 THEN SetResult(s, "ok")
    ELSE LET text == s.timing_widgets[group_idx + 1][i + 1]
             val  == IF text = "" THEN Ok(0) ELSE ParseInt(text)
         IN  IF ~val.ok THEN TimingFromEntries(s, group_idx, i + 1)
             ELSE IF group_idx + 1 > Len(s.timing_groups)
                     \/ i + 1 > Len(s.timing_groups[group_idx + 1])
             THEN SetResult(s, "IndexError")
             ELSE TimingFromEntries(
                      [s EXCEPT !.timing_groups[group_idx + 1][i + 1] = val.value],
                      group_idx, i + 1)

\* LUTEditor.on_timing_change, after the user has typed text into field i of
\* the group's row
on_timing_change(s, group_idx, i, text) ==
    LET s1 == [s EXCEPT !.timing_widgets[group_idx + 1][i + 1] = text]
        Finish(s2) == IF s2.result # "ok" THEN s2 ELSE WithPreview(s2)
    IN  Finish(TimingFromEntries(s1, group_idx, 0))

\* LUTEditor.on_framerate_change, after the user has typed text into the spinbox
on_framerate_change(s, text) ==
    LET s1  == [s EXCEPT !.frame_rate_spin = text]
        val == IF text = "" THEN Ok(68) ELSE ParseInt(text)
    IN  WithPreview(IF val.ok THEN [s1 EXCEPT !.frame_rate = val.value] ELSE s1)

\* "for name, entry in self.voltage_entries.items(): ...", from the k-th entry on
RECURSIVE VoltagesFromEntries(_, _)
VoltagesFromEntries(s, k) ==
    IF k > Len(VoltageSettingNames) THEN s
    ELSE LET name == VoltageSettingNames[k]
             text == Strip(s.voltage_entries[name])
             val  == IF StartsWith(text, "0x") \/ StartsWith(text, "0X")
                     THEN ParseHex(text)
                     ELSE ParseInt(text)
         IN  IF ~val.ok THEN VoltagesFromEntries(s, k + 1)
             ELSE VoltagesFromEntries(
                      [s EXCEPT !.voltages =
                          [n \in (DOMAIN @) \cup {name} |->
                              IF n = name THEN And0xFF(val.value) ELSE @[n]]],
                      k + 1)

\* LUTEditor.on_voltage_setting_change, after the user has typed text into the
\* entry of the named voltage
on_voltage_setting_change(s, name, text) ==
    WithPreview(VoltagesFromEntries([s EXCEPT !.voltage_entries[name] = text], 1))

\* the patterns and timing groups reset_to_default installs
ResetVoltagePatterns ==
    [t \in 0..3 |-> CASE t = 0 -> <<"VSL", "VSH1">>
                      [] t = 1 -> <<"VSH2", "VSH1">>
                      [] t = 2 -> <<"VSL", "VSL">>
                      [] t = 3 -> <<"VSH1", "VSS">>]

ResetTimingGroups ==
    [g \in 1..10 |-> CASE g = 1 -> <<10, 10, 0, 0, 0>>
                       [] g = 2 -> <<8, 8, 0, 0, 0>>
                       [] OTHER -> <<0, 0, 0, 0, 0>>]

\* "for i in range(4): self.reload_voltage_pattern(i)", from transition i on
RECURSIVE ReloadAll(_, _)
ReloadAll(s, i) ==
    IF i >= 4 THEN SetResult(s, "ok")
    ELSE LET s1 == reload_voltage_pattern(s, i)
         IN  IF s1.result # "ok" THEN s1 ELSE ReloadAll(s1, i + 1)

\* "for t in range(5): self.timing_widgets[g][t].set(str(self.timing_groups[g][t]))",
\* from field t on; an absent group or field raises IndexError
RECURSIVE SetTimingRow(_, _, _)
SetTimingRow(s, g, t) ==
    IF t >= 5 THEN SetResult(s, "ok")
    ELSE IF g + 1 > Len(s.timing_groups) \/ t + 1 > Len(s.timing_groups[g + 1])
    THEN SetResult(s, "IndexError")
    ELSE SetTimingRow(
             [s EXCEPT !.timing_widgets[g + 1][t + 1] =
                           Str(s.timing_groups[g + 1][t + 1])],
             g, t + 1)

\* "for g in range(10): for t in range(5): ...", from group g on
RECURSIVE SetTimingWidgets(_, _)
SetTimingWidgets(s, g) ==
    IF g >= 10 THEN SetResult(s, "ok")
    ELSE LET s1 == SetTimingRow(s, g, 0)
         IN  IF s1.result # "ok" THEN s1 ELSE SetTimingWidgets(s1, g + 1)

\* LUTEditor.reset_to_default; confirmed is the answer to "Reset to default?"
reset_to_default(s, confirmed) ==
    IF ~confirmed THEN SetResult(s, "cancelled")
    ELSE LET s1 == [s EXCEPT !.voltage_patterns = ResetVoltagePatterns,
                             !.timing_groups = ResetTimingGroups]
             s2 == ReloadAll(s1, 0)
             s3 == SetTimingWidgets(s2, 0)
         IN  WithPreview(s3)

-----------------------------------------------------------------------------
(* load_from_file.  A document is the content of the chosen file:          *)
(* wellformed says whether json.load parses it, fields names the top-level *)
(* keys it has, and the four values are those of the keys it has.  The     *)
(* keys of "voltage_patterns" are JSON strings.                            *)

\* "{int(k): v for k, v in data["voltage_patterns"].items()}" (the keys of the
\* documents of the model convert to distinct ints)
IntKeyed(patterns) ==
    [n \in {ParseInt(k).value : k \in DOMAIN patterns} |->
        patterns[CHOOSE k \in DOMAIN patterns : ParseInt(k).value = n]]

\* "for name in self.voltages: self.voltage_entries[name].delete(0, tk.END);
\*  self.voltage_entries[name].insert(0, f"0x{self.voltages[name]:02X}")", from
\* the k-th name on; the voltages of a document list the five known names
\* first, in the order of the entries, and any other name after them
RECURSIVE SetVoltageEntries(_, _)
SetVoltageEntries(s, k) ==
    IF k > Len(VoltageSettingNames)
    THEN IF \E n \in DOMAIN s.voltages :
                \A j \in 1..Len(VoltageSettingNames) : VoltageSettingNames[j] # n
         THEN SetResult(s, "KeyError")
         ELSE SetResult(s, "ok")
    ELSE LET name == VoltageSettingNames[k]
         IN  IF name \notin DOMAIN s.voltages THEN SetVoltageEntries(s, k + 1)
             ELSE IF ~IsInt(s.voltages[name])
             THEN [s EXCEPT !.voltage_entries[name] = "",
                            !.result = "ValueError"]
             ELSE SetVoltageEntries(
                      [s EXCEPT !.voltage_entries[name] =
                                    "0x" \o Hex02(s.voltages[name])],
                      k + 1)

\* the part of load_from_file from "# Reload UI" on, the four fields assigned
ReloadUI(s) ==
    LET Entries(s4) == IF s4.result # "ok" THEN s4 ELSE WithPreview(s4)
        Timing(s2) ==
            IF s2.result # "ok" THEN s2
            ELSE Entries(SetVoltageEntries(
                     [s2 EXCEPT !.frame_rate_spin = Str(s2.frame_rate)], 1))
        Patterns(s1) ==
            IF s1.result # "ok" THEN s1 ELSE Timing(SetTimingWidgets(s1, 0))
    IN  Patterns(ReloadAll(s, 0))

\* LUTEditor.load_from_file; chosen is whether the file dialog returned a name.
\* Every exception of the try block is caught and reported: "failed".
load_from_file(s, chosen, doc) ==
    IF ~chosen THEN SetResult(s, "cancelled")
    ELSE IF ~doc.wellformed THEN SetResult(s, "failed")
    ELSE IF "voltage_patterns" \notin doc.fields THEN SetResult(s, "failed")
    ELSE IF \E k \in DOMAIN doc.voltage_patterns : ~ParseInt(k).ok
    THEN SetResult(s, "failed")
    ELSE LET s1 == [s EXCEPT !.voltage_patterns = IntKeyed(doc.voltage_patterns)]
             s2 == [s1 EXCEPT !.timing_groups = doc.timing_groups]
             s3 == [s2 EXCEPT !.frame_rate = doc.frame_rate]
             s4 == [s3 EXCEPT !.voltages = doc.voltages]
             Report(s5) ==
                 SetResult(s5, IF s5.result = "ok" THEN "loaded" ELSE "failed")
         IN  IF "timing_groups" \notin doc.fields THEN SetResult(s1, "failed")
             ELSE IF "frame_rate" \notin doc.fields THEN SetResult(s2, "failed")
             ELSE IF "voltages" \notin doc.fields THEN SetResult(s3, "failed")
             ELSE Report(ReloadUI(s4))

-----------------------------------------------------------------------------
(* save_to_file                                                            *)

\* the four keys of "data"
AllFields == {"voltage_patterns", "timing_groups", "frame_rate", "voltages"}

\* the keys json.dump writes one place too high: str(k + 1)
StrKeyed_shifted(patterns) ==
    [k \in {Str(t + 1) : t \in DOMAIN patterns} |->
        patterns[CHOOSE t \in DOMAIN patterns : Str(t + 1) = k]]

\* json.dump of self.voltage_patterns: a JSON object, whose keys are the
\* texts str(k) of the dict's int keys
StrKeyed(patterns) ==
    [k \in {Str(t) : t \in DOMAIN patterns} |->
        patterns[CHOOSE t \in DOMAIN patterns : Str(t) = k]]

\* what json.dump(data, f, indent=2) writes, as load_from_file reads it
Document(s) ==
    [wellformed       |-> TRUE,
     fields           |-> AllFields,
     voltage_patterns |-> StrKeyed(s.voltage_patterns),
     timing_groups    |-> s.timing_groups,
     frame_rate       |-> s.frame_rate,
     voltages         |-> s.voltages]

\* the order in which json.dump writes the members of "data"
FieldOrder == <<"voltage_patterns", "timing_groups", "frame_rate", "voltages">>

\* the write ran to its end: all four members and the closing brace
Complete == Len(FieldOrder) + 1

\* how far a write can get: cut short after 0..4 members, or complete
Writes == 0..Complete

\* the text open(filename, "w") and a json.dump cut short after n members
\* leave in the file: the old content is gone and the new one does not parse
Truncated(doc, n) ==
    [doc EXCEPT !.wellformed = FALSE,
                !.fields = {FieldOrder[i] : i \in 1..n}]

\* LUTEditor.save_to_file; chosen is whether the file dialog returned a name,
\* written is how far f.write got before the operating system refused (disk
\* full, device gone): the handler catches nothing, so OSError leaves it
save_to_file(s, chosen, written) ==
    IF ~chosen THEN SetResult(s, "cancelled")
    ELSE IF written < Complete
    THEN [s EXCEPT !.file = <<Truncated(Document(s), written)>>,
                   !.result = "OSError"]
    ELSE [s EXCEPT !.file = <<Document(s)>>, !.result = "saved"]

-----------------------------------------------------------------------------
(* The inputs the model offers to the handlers.                            *)

Transitions == 0..3

\* the pattern of n steps that repeats the names of seed
Cycle(seed, n) == [k \in 1..n |-> seed[((k - 1) % Len(seed)) + 1]]

\* a document save_to_file could have written
DocValid ==
    [wellformed       |-> TRUE,
     fields           |-> AllFields,
     voltage_patterns |-> ("0" :> <<"VSH2">>) @@ ("1" :> <<"VSL", "VSS">>)
                          @@ ("2" :> <<"VSH1", "VSH1", "VSL">>)
                          @@ ("3" :> <<"VSS", "VSS", "VSS", "VSS", "VSH2">>),
     timing_groups    |-> [g \in 1..10 |-> CASE g = 1  -> <<1, 2, 3, 4, 1>>
                                             [] g = 10 -> <<0, 0, 0, 5, 2>>
                                             [] OTHER  -> <<0, 0, 0, 0, 0>>],
     frame_rate       |-> 19,
     voltages         |-> [n \in DOMAIN InitVoltages |-> InitVoltages[n] + 1]]

WithPattern(doc, key, pattern) ==
    [doc EXCEPT !.voltage_patterns =
        [k \in (DOMAIN @) \cup {key} |-> IF k = key THEN pattern ELSE @[k]]]

WithoutPattern(doc, key) ==
    [doc EXCEPT !.voltage_patterns = [k \in (DOMAIN @) \ {key} |-> @[k]]]

WithoutField(doc, field) == [doc EXCEPT !.fields = @ \ {field}]

Documents ==
    { DocValid,
      \* not JSON at all
      [DocValid EXCEPT !.wellformed = FALSE],
      \* a top-level field missing
      WithoutField(DocValid, "voltage_patterns"),
      WithoutField(DocValid, "timing_groups"),
      WithoutField(DocValid, "frame_rate"),
      WithoutField(DocValid, "voltages"),
      \* too few, too many, unreadable pattern keys
      WithoutPattern(DocValid, "2"),
      WithPattern(DocValid, "4", <<"VSS">>),
      WithPattern(DocValid, "a", <<"VSS">>),
      \* a voltage name outside the four, pattern lengths 0, 1, 39, 40, 41
      WithPattern(DocValid, "1", <<"VSL", "VXX", "VSH2">>),
      WithPattern(DocValid, "3", <<>>),
      WithPattern(WithoutPattern(DocValid, "2"), "3", <<"VSL">>),
      WithPattern(DocValid, "0", Cycle(<<"VSH1", "VSL", "VSH2">>, MaxSteps - 1)),
      WithPattern(DocValid, "3", Cycle(<<"VSH2", "VSS", "VSL">>, MaxSteps)),
      WithPattern(DocValid, "1", Cycle(<<"VSH2", "VSH1">>, MaxSteps + 1)),
      \* too few or too many timing groups or fields
      [DocValid EXCEPT !.timing_groups = SubSeq(@, 1, 9)],
      [DocValid EXCEPT !.timing_groups = @ \o <<<<1, 1, 1, 1, 1>>>>],
      [DocValid EXCEPT !.timing_groups[10] = <<0, 0, 0, 5>>],
      \* numeric fields that are not integers, or not bytes
      [DocValid EXCEPT !.timing_groups[1][2] = NotInt],
      [DocValid EXCEPT !.frame_rate = NotInt],
      [DocValid EXCEPT !.voltages["VSH2"] = NotInt],
      [DocValid EXCEPT !.frame_rate = 300, !.timing_groups[2][5] = -1],
      \* too few or too many voltage levels
      [DocValid EXCEPT !.voltages = [n \in (DOMAIN @) \ {"VCOM"} |-> @[n]]],
      [DocValid EXCEPT !.voltages =
          [n \in (DOMAIN @) \cup {"VDD"} |-> IF n = "VDD" THEN 1 ELSE @[n]]] }

EditGroups == {0, 9}

EditFields == {0, 4}

TimingTexts == {"", "7", "300", "-1", "abc"}

FrameRateTexts == {"", "0", "251", "-5", "1x"}

EditVoltages == {"VGH", "VCOM"}

VoltageTexts == {"", "0x1F", " 31 ", "300", "-1", "0x"}

-----------------------------------------------------------------------------
(* The editor as a state machine: Init is the constructed editor and each  *)
(* action is one handler call.                                             *)

Self ==
    [voltage_patterns |-> voltage_patterns,
     timing_groups    |-> timing_groups,
     frame_rate       |-> frame_rate,
     voltages         |-> voltages,
     voltage_widgets  |-> voltage_widgets,
     timing_widgets   |-> timing_widgets,
     frame_rate_spin  |-> frame_rate_spin,
     voltage_entries  |-> voltage_entries,
     timing_label     |-> timing_label,
     preview_text     |-> preview_text,
     encoded          |-> encoded,
     timed            |-> timed,
     file             |-> file,
     result           |-> last.result]

\* the editor is in state s
IsState(s) ==
    /\ voltage_patterns = s.voltage_patterns
    /\ timing_groups = s.timing_groups
    /\ frame_rate = s.frame_rate
    /\ voltages = s.voltages
    /\ voltage_widgets = s.voltage_widgets
    /\ timing_widgets = s.timing_widgets
    /\ frame_rate_spin = s.frame_rate_spin
    /\ voltage_entries = s.voltage_entries
    /\ timing_label = s.timing_label
    /\ preview_text = s.preview_text
    /\ encoded = s.encoded
    /\ timed = s.timed
    /\ file = s.file

\* the call of op with the arguments args takes the editor to state s
Becomes(s, op, args) ==
    /\ voltage_patterns' = s.voltage_patterns
    /\ timing_groups' = s.timing_groups
    /\ frame_rate' = s.frame_rate
    /\ voltages' = s.voltages
    /\ voltage_widgets' = s.voltage_widgets
    /\ timing_widgets' = s.timing_widgets
    /\ frame_rate_spin' = s.frame_rate_spin
    /\ voltage_entries' = s.voltage_entries
    /\ timing_label' = s.timing_label
    /\ preview_text' = s.preview_text
    /\ encoded' = s.encoded
    /\ timed' = s.timed
    /\ file' = s.file
    /\ calls' = Append(calls, [op |-> op, args |-> args, result |-> s.result])

Init ==
    /\ IsState(Constructed)
    /\ calls = <<[op |-> "__init__", args |-> <<>>, result |-> Constructed.result]>>

AddVoltage(t) == Becomes(add_voltage(Self, t), "add_voltage", <<t>>)

RemoveVoltage(t, v) ==
    Becomes(remove_voltage(Self, t, v), "remove_voltage", <<t, v>>)

OnVoltageChange(t, v, selected) ==
    Becomes(on_voltage_change(Self, t, v, selected), "on_voltage_change",
            <<t, v, selected>>)

OnTimingChange(g, i, text) ==
    Becomes(on_timing_change(Self, g, i, text), "on_timing_change",
            <<g, i, text>>)

OnFramerateChange(text) ==
    Becomes(on_framerate_change(Self, text), "on_framerate_change", <<text>>)

OnVoltageSettingChange(name, text) ==
    Becomes(on_voltage_setting_change(Self, name, text),
            "on_voltage_setting_change", <<name, text>>)

ResetToDefault(confirmed) ==
    Becomes(reset_to_default(Self, confirmed), "reset_to_default",
            <<confirmed>>)

LoadFromFile(chosen, doc) ==
    Becomes(load_from_file(Self, chosen, doc), "load_from_file",
            <<chosen, doc>>)

SaveToFile(chosen, written) ==
    Becomes(save_to_file(Self, chosen, written), "save_to_file",
            <<chosen, written>>)

\* fewer than n handler calls have been made
Within(n) == nops < n

Next ==
    \/ Within(MaxOps) /\ \E t \in Transitions : AddVoltage(t)
    \/ Within(MaxOps) /\ \E t \in Transitions, v \in 0..MaxVoltIdx :
                             RemoveVoltage(t, v)
    \/ Within(MaxOps) /\ \E t \in Transitions, v \in 0..MaxVoltIdx,
                                n \in VoltageNames : OnVoltageChange(t, v, n)
    \/ Within(MaxOps) /\ \E g \in EditGroups, i \in EditFields,
                                text \in TimingTexts : OnTimingChange(g, i, text)
    \/ Within(MaxOps) /\ \E text \in FrameRateTexts : OnFramerateChange(text)
    \/ Within(MaxOps) /\ \E name \in EditVoltages, text \in VoltageTexts :
                             OnVoltageSettingChange(name, text)
    \/ Within(MaxOps) /\ \E confirmed \in BOOLEAN : ResetToDefault(confirmed)
    \/ Within(MaxOps) /\ \E doc \in Documents : LoadFromFile(TRUE, doc)
    \/ Within(MaxOps) /\ LoadFromFile(FALSE, DocValid)
    \/ Within(MaxOps) /\ \E chosen \in BOOLEAN, written \in Writes :
                          SaveToFile(chosen, written)
    \/ Within(MaxOps) /\ file # <<>> /\ LoadFromFile(TRUE, file[1])

Spec == Init /\ [][Next]_vars

-----------------------------------------------------------------------------
(* The encoder alone: voltage_pattern_to_lut applied to one model drawn    *)
(* from the sets below.  Every model drawn is one the editor can hold:     *)
(* step names and lengths outside the editor's own choices, numeric fields *)
(* outside 0..255 or not ints, and missing keys or groups all come in      *)
(* through load_from_file, which assigns the fields it reads as they are.  *)

\* steps beyond MaxSteps the drawn patterns may have
MaxExtra == 4

\* lut[i] of the returned list
LutByte(lut, i) == lut[i + 1]

Seeds == UNION {[1..k -> VoltageNames] : k \in 1..MaxSeedLen}

EncPatterns ==
    { [InitVoltagePatterns EXCEPT ![t] = Cycle(seed, n)] :
          t \in Transitions, seed \in Seeds, n \in 0..(MaxSteps + MaxExtra) }

OddPatterns ==
    { InitVoltagePatterns,
      [InitVoltagePatterns EXCEPT ![1] = <<"VSL", "VXX", "VSH2">>],
      [InitVoltagePatterns EXCEPT
          ![2] = <<"VXX", "VSH2", "", "VSH1", "VSL", "vsl", "VSH1", "VGH">>],
      [InitVoltagePatterns EXCEPT
          ![0] = <<"VSH2", "VSH1", "VSL", "VCOM">>,
          ![3] = Cycle(<<"VSH2", "VXX", "VSH1">>, MaxSteps)],
      [t \in {0, 1, 3} |-> InitVoltagePatterns[t]],
      [InitVoltagePatterns EXCEPT ![3] = Cycle(<<"VSH2", "VSH1">>, MaxSteps + 1)],
      [InitVoltagePatterns EXCEPT ![2] = Cycle(VOLTAGE_OPTIONS, MaxSteps)],
      [InitVoltagePatterns EXCEPT
          ![0] = Cycle(<<"VSH2", "VSL", "VSH1", "VSS", "VSL">>, MaxSteps - 1)] }

DistinctTiming == [g \in 1..10 |-> [i \in 1..5 |-> 5 * (g - 1) + i]]

EncTimings ==
    { InitTimingGroups,
      DistinctTiming,
      [DistinctTiming EXCEPT ![1][2] = 300, ![10][5] = -1],
      [DistinctTiming EXCEPT ![3][1] = NotInt],
      DistinctTiming \o <<<<9, 9, 9, 9, 9>>>>,
      SubSeq(DistinctTiming, 1, 9),
      [DistinctTiming EXCEPT ![2] = @ \o <<77>>],
      [DistinctTiming EXCEPT ![10] = SubSeq(@, 1, 4)] }

EncFrameRates == {0, 1, InitFrameRate, 255, 300, -1, NotInt}

DistinctVoltages ==
    [n \in DOMAIN InitVoltages |->
        CASE n = "VGH"  -> 1
          [] n = "VSH1" -> 2
          [] n = "VSH2" -> 3
          [] n = "VSL"  -> 4
          [] n = "VCOM" -> 5]

EncVoltages ==
    { InitVoltages,
      DistinctVoltages,
      [DistinctVoltages EXCEPT !["VSH2"] = 300, !["VSL"] = NotInt],
      [n \in (DOMAIN DistinctVoltages) \ {"VCOM"} |-> DistinctVoltages[n]],
      [n \in (DOMAIN DistinctVoltages) \cup {"VDD"} |->
          IF n = "VDD" THEN 9 ELSE DistinctVoltages[n]] }

EncoderInputs ==
    { [vp |-> vp, tg |-> InitTimingGroups, fr |-> InitFrameRate,
       vs |-> InitVoltages] : vp \in EncPatterns }
    \cup
    { [vp |-> vp, tg |-> tg, fr |-> fr, vs |-> vs] :
          vp \in OddPatterns, tg \in EncTimings, fr \in EncFrameRates,
          vs \in EncVoltages }

\* an editor that holds the model m and has not encoded it yet
InitEnc ==
    /\ \E m \in EncoderInputs :
           IsState([Constructed EXCEPT !.voltage_patterns = m.vp,
                                       !.timing_groups = m.tg,
                                       !.frame_rate = m.fr,
                                       !.voltages = m.vs,
                                       !.encoded = NotCalled])
    /\ calls = <<[op |-> "__init__", args |-> <<>>, result |-> "ok"]>>

\* one call of self.voltage_pattern_to_lut()
VoltagePatternToLut ==
    LET Returned(lut) ==
            /\ encoded' = lut
            /\ calls' = Append(calls,
                               [op     |-> "voltage_pattern_to_lut",
                                args   |-> <<>>,
                                result |-> IF lut.ok THEN "ok" ELSE lut.error])
    IN  /\ nops < 1
        /\ Returned(voltage_pattern_to_lut(voltage_patterns, timing_groups,
                                           frame_rate, voltages))
        /\ UNCHANGED <<model, widgets, display, timed, file>>

NextEnc == VoltagePatternToLut

SpecEnc == InitEnc /\ [][NextEnc]_vars

-----------------------------------------------------------------------------
(* Claims about the encoder, checked under SpecEnc.                        *)

\* C1: for every transition t in 0..3 and every byte position b in 0..9, LUT
\* byte 10*t+b returned by voltage_pattern_to_lut is the sum over k in 0..3 of
\* code(pattern_t[4b+k]) shifted left by 6-2k bits, with VSS=0, VSH1=1, VSL=2,
\* VSH2=3 and a step at or beyond the pattern's length contributing 0
C1_BytePacking ==
    LET code(name) == CASE name = "VSS"  -> 0
                        [] name = "VSH1" -> 1
                        [] name = "VSL"  -> 2
                        [] name = "VSH2" -> 3
        slot(p, b, k) == IF 4 * b + k < Len(p) THEN code(p[4 * b + k + 1]) ELSE 0
        packed(p, b) == slot(p, b, 0) * 64 + slot(p, b, 1) * 16
                            + slot(p, b, 2) * 4 + slot(p, b, 3)
    IN  encoded.ok =>
            \A t \in 0..3 :
                (\A k \in 1..Len(voltage_patterns[t]) :
                     voltage_patterns[t][k] \in {"VSS", "VSH1", "VSL", "VSH2"})
                => \A b \in 0..9 :
                       LutByte(encoded.value, 10 * t + b)
                           = packed(voltage_patterns[t], b)

\* [VSS,VSH1,VSS,VSH1] has been encoded to 0x11 and [VSL,VSL,VSL,VSS] to 0xA8,
\* beside a pattern that fills all ten bytes of its block
C1_Witness ==
    /\ last.op = "voltage_pattern_to_lut"
    /\ encoded.ok
    /\ voltage_patterns[0] = <<"VSS", "VSH1", "VSS", "VSH1">>
    /\ LutByte(encoded.value, 0) = 17
    /\ voltage_patterns[1] = <<"VSL", "VSL", "VSL", "VSS">>
    /\ LutByte(encoded.value, 10) = 168
    /\ Len(voltage_patterns[3]) = MaxSteps
    /\ LutByte(encoded.value, 39) = 109

\* C3: LUT bytes 40..49 and 110..111 returned by voltage_pattern_to_lut are 0
\* for every model, whatever the patterns (of any length), the timing groups,
\* the frame rate and the voltage levels contain
C3_ReservedZero ==
    encoded.ok =>
        \A i \in (40..49) \cup {110, 111} : LutByte(encoded.value, i) = 0

\* a model with a pattern of more than 40 steps on the last transition, whose
\* block ends in a non-zero byte, has been encoded
C3_Witness ==
    /\ last.op = "voltage_pattern_to_lut"
    /\ encoded.ok
    /\ Len(voltage_patterns[3]) > MaxSteps
    /\ LutByte(encoded.value, 39) # 0
    /\ LutByte(encoded.value, 50) # 0
    /\ LutByte(encoded.value, 109) # 0

\* C4: for a transition t whose pattern has n steps, 1 <= n < 40, every LUT
\* byte 10*t+b with b >= ceil(n/4) is 0, and in the partly filled byte
\* b = ceil(n/4)-1 (n not a multiple of 4) the bit pairs past step n-1 are 00
C4_ZeroPadding ==
    encoded.ok =>
        \A t \in 0..3 :
            LET n == Len(voltage_patterns[t])
                full == (n + 3) \div 4
            IN  (1 <= n /\ n < 40) =>
                    /\ \A b \in full..9 : LutByte(encoded.value, 10 * t + b) = 0
                    /\ (n % 4 # 0) =>
                           LutByte(encoded.value, 10 * t + full - 1)
                               % Pow2(2 * (4 - (n % 4))) = 0

\* a 5-step pattern of VSH2 has been encoded to 0xFF, 0xC0 and eight 0x00
C4_Witness ==
    /\ last.op = "voltage_pattern_to_lut"
    /\ encoded.ok
    /\ \E t \in 0..3 :
           /\ voltage_patterns[t] = <<"VSH2", "VSH2", "VSH2", "VSH2", "VSH2">>
           /\ LutByte(encoded.value, 10 * t) = 255
           /\ LutByte(encoded.value, 10 * t + 1) = 192
           /\ \A b \in 2..9 : LutByte(encoded.value, 10 * t + b) = 0

\* C5: for every timing group g in 0..9 and field i in 0..4, LUT byte 50+5*g+i
\* returned by voltage_pattern_to_lut is timing_groups[g][i], unchanged
C5_TimingVerbatim ==
    encoded.ok =>
        \A g \in 0..9, i \in 0..4 :
            LutByte(encoded.value, 50 + 5 * g + i) = timing_groups[g + 1][i + 1]

\* fifty different timing values, one of them above 255 and one negative, have
\* been encoded
C5_Witness ==
    /\ last.op = "voltage_pattern_to_lut"
    /\ encoded.ok
    /\ timing_groups[1][2] = 300
    /\ timing_groups[10][5] = -1
    /\ LutByte(encoded.value, 51) = 300
    /\ LutByte(encoded.value, 99) = -1
    /\ LutByte(encoded.value, 62) = 13

\* C6: LUT bytes 100..104 returned by voltage_pattern_to_lut all equal the
\* model's frame_rate
C6_FrameRate ==
    encoded.ok => \A i \in 100..104 : LutByte(encoded.value, i) = frame_rate

\* a frame rate of 255 has been encoded
C6_Witness ==
    /\ last.op = "voltage_pattern_to_lut"
    /\ encoded.ok
    /\ frame_rate = 255
    /\ LutByte(encoded.value, 100) = 255
    /\ LutByte(encoded.value, 104) = 255

\* C7: LUT bytes 105..109 returned by voltage_pattern_to_lut equal the model's
\* VGH, VSH1, VSH2, VSL and VCOM levels, in that order
C7_Voltages ==
    encoded.ok =>
        /\ LutByte(encoded.value, 105) = voltages["VGH"]
        /\ LutByte(encoded.value, 106) = voltages["VSH1"]
        /\ LutByte(encoded.value, 107) = voltages["VSH2"]
        /\ LutByte(encoded.value, 108) = voltages["VSL"]
        /\ LutByte(encoded.value, 109) = voltages["VCOM"]

\* five different voltage levels have been encoded
C7_Witness ==
    /\ last.op = "voltage_pattern_to_lut"
    /\ encoded.ok
    /\ voltages["VGH"] = 1 /\ voltages["VSH1"] = 2 /\ voltages["VSH2"] = 3
    /\ voltages["VSL"] = 4 /\ voltages["VCOM"] = 5
    /\ LutByte(encoded.value, 105) = 1
    /\ LutByte(encoded.value, 109) = 5

\* C8: for every transition and every pattern p of 1..40 steps over the four
\* voltage names, the first len(p) two-bit slots of the transition's ten
\* bytes (four per byte, most significant first), mapped 0,1,2,3 to
\* VSS,VSH1,VSL,VSH2, read back exactly p
C8_RoundTrip ==
    LET name(c) == CASE c = 0 -> "VSS"
                     [] c = 1 -> "VSH1"
                     [] c = 2 -> "VSL"
                     [] c = 3 -> "VSH2"
        slot(lut, t, s) ==
            (LutByte(lut, 10 * t + (s \div 4)) \div Pow2(6 - 2 * (s % 4))) % 4
    IN  encoded.ok =>
            \A t \in 0..3 :
                LET p == voltage_patterns[t]
                IN  (/\ 1 <= Len(p) /\ Len(p) <= 40
                     /\ \A k \in 1..Len(p) : p[k] \in {"VSS", "VSH1", "VSL", "VSH2"})
                    => [k \in 1..Len(p) |-> name(slot(encoded.value, t, k - 1))] = p

\* a 40-step pattern that holds all four names has been encoded
C8_Witness ==
    /\ last.op = "voltage_pattern_to_lut"
    /\ encoded.ok
    /\ \E t \in 0..3 :
           /\ Len(voltage_patterns[t]) = 40
           /\ \A n \in {"VSS", "VSH1", "VSL", "VSH2"} :
                  \E k \in 1..40 : voltage_patterns[t][k] = n

-----------------------------------------------------------------------------
(* The estimator alone: calculate_timing applied to the timing groups and  *)
(* the frame rate of one model.  The editor can hold every model drawn:    *)
(* fields the handlers set from typed text (any integer) and lists of      *)
(* other shapes, or values that are not ints, read by load_from_file.      *)

\* phase counts 0..MaxPhase and repeat counts 0..MaxRepeat of the drawn groups
MaxPhase == 2

MaxRepeat == 2

ZeroTiming == [g \in 1..10 |-> <<0, 0, 0, 0, 0>>]

\* one non-zero group, first or last, among zero groups
OneGroupTimings ==
    { [ZeroTiming EXCEPT ![g] = <<a, 0, c, d, rp>>] :
          g \in {1, 10}, a \in 0..MaxPhase, c \in 0..MaxPhase,
          d \in 0..MaxPhase, rp \in 0..MaxRepeat }

OddTimings ==
    { InitTimingGroups,
      ResetTimingGroups,
      DistinctTiming,
      [ZeroTiming EXCEPT ![1] = <<4, 4, 0, 0, 0>>],
      [ZeroTiming EXCEPT ![1] = <<4, 4, 0, 0, 0>>, ![3] = <<1, 2, 3, 4, 2>>,
                         ![10] = <<0, 0, 0, 5, 1>>],
      [ZeroTiming EXCEPT ![5] = <<255, 255, 255, 255, 255>>],
      [ZeroTiming EXCEPT ![2] = <<9, 0, 0, 0, 18>>],
      \* fields outside 0..255, as on_timing_change stores them
      [ZeroTiming EXCEPT ![1] = <<300, 0, 0, 0, 0>>],
      [ZeroTiming EXCEPT ![1] = <<4, 4, 0, 0, -3>>, ![2] = <<2, 2, 0, 0, 0>>],
      [ZeroTiming EXCEPT ![10] = <<-1, 0, 0, 0, 0>>],
      \* lists load_from_file installs
      [ZeroTiming EXCEPT ![3][1] = NotInt],
      [ZeroTiming EXCEPT ![3][5] = NotInt],
      ZeroTiming \o <<<<1, 1, 1, 1, 1>>>>,
      SubSeq(DistinctTiming, 1, 9),
      [ZeroTiming EXCEPT ![2] = <<1, 2, 3, 4, 1, 77>>],
      [DistinctTiming EXCEPT ![10] = SubSeq(@, 1, 4)] }

TimedFrameRates == {0, 1, 19, InitFrameRate, 250, 251, 255, 300, -1, NotInt}

\* an editor that holds the timing groups tg and the frame rate fr and has
\* not estimated them yet
InitTiming ==
    /\ \E tg \in OneGroupTimings \cup OddTimings, fr \in TimedFrameRates :
           IsState([Constructed EXCEPT !.timing_groups = tg,
                                       !.frame_rate = fr,
                                       !.timed = NotCalled])
    /\ calls = <<[op |-> "__init__", args |-> <<>>, result |-> "ok"]>>

\* one call of self.calculate_timing()
CalculateTiming ==
    LET Returned(timing) ==
            /\ timed' = timing
            /\ calls' = Append(calls,
                               [op     |-> "calculate_timing",
                                args   |-> <<>>,
                                result |-> IF timing.ok THEN "ok"
                                           ELSE timing.error])
    IN  /\ nops < 1
        /\ Returned(calculate_timing(timing_groups, frame_rate))
        /\ UNCHANGED <<model, widgets, display, encoded, file>>

NextTiming == CalculateTiming

SpecTiming == InitTiming /\ [][NextTiming]_vars

-----------------------------------------------------------------------------
(* Claims about the estimator, checked under SpecTiming.                   *)

\* C11: for a model of ten timing groups, calculate_timing returns
\* total_frames equal to the sum over the groups g = 0..9 of
\* (A_g + B_g + C_g + D_g) * (RP_g + 1); a group with RP = 0 counts its phase
\* sum exactly once
C11_TotalFrames ==
    LET Frames(group) ==
            (group[1] + group[2] + group[3] + group[4]) * (group[5] + 1)
        Total(tg) ==
            Frames(tg[1]) + Frames(tg[2]) + Frames(tg[3]) + Frames(tg[4])
                + Frames(tg[5]) + Frames(tg[6]) + Frames(tg[7]) + Frames(tg[8])
                + Frames(tg[9]) + Frames(tg[10])
    IN  (timed.ok /\ Len(timing_groups) = 10) =>
            /\ timed.value[1] = Total(timing_groups)
            /\ \A g \in 1..10 :
                   (/\ timing_groups[g][5] = 0
                    /\ \A h \in (1..10) \ {g} : timing_groups[h] = ZeroTiming[h])
                   => timed.value[1] = timing_groups[g][1] + timing_groups[g][2]
                                          + timing_groups[g][3] + timing_groups[g][4]

\* the total of a group with RP = 0, a group with RP = 2 and a group with
\* RP = 1 has been computed: 8 * 1 + 10 * 3 + 5 * 2
C11_Witness ==
    /\ last.op = "calculate_timing"
    /\ timed.ok
    /\ timing_groups[1] = <<4, 4, 0, 0, 0>>
    /\ timing_groups[3] = <<1, 2, 3, 4, 2>>
    /\ timing_groups[10] = <<0, 0, 0, 5, 1>>
    /\ timed.value[1] = 48

\* C12: for a frame rate >= 0 and a total that is not negative,
\* calculate_timing returns estimated_ms = floor(total_frames * ms_per_frame
\* * 1.1), the products taken left to right in binary64 floating point, where
\* ms_per_frame is max(2500 / frame_rate, 10) when frame_rate > 0 and exactly
\* 50 when frame_rate = 0; the single group [4,4,0,0,0] with frame rate 136
\* gives total_frames 8 and estimated_ms 161
C12_EstimatedMs ==
    LET AtLeast(x, n) == IF FTrunc(x) < n THEN FFromInt(n) ELSE x
        ms_per_frame(fr) ==
            IF fr > 0 THEN AtLeast(FDivInt(2500, fr), 10) ELSE FFromInt(50)
        estimated_ms(total_frames, fr) ==
            FTrunc(FMul(FMul(FFromInt(total_frames), ms_per_frame(fr)),
                        FDivInt(11, 10)))
    IN  /\ (timed.ok /\ frame_rate >= 0 /\ timed.value[1] >= 0) =>
               timed.value[2] = estimated_ms(timed.value[1], frame_rate)
        /\ (/\ timed.ok
            /\ timing_groups = [ZeroTiming EXCEPT ![1] = <<4, 4, 0, 0, 0>>]
            /\ frame_rate = 136)
           => timed.value = <<8, 161>>

\* the estimate of the single group [4,4,0,0,0] at frame rate 136 has been
\* computed
C12_Witness ==
    /\ last.op = "calculate_timing"
    /\ timing_groups = [ZeroTiming EXCEPT ![1] = <<4, 4, 0, 0, 0>>]
    /\ frame_rate = 136
    /\ timed = Ok(<<8, 161>>)

\* C13: when all five fields of all 10 timing groups are 0, calculate_timing
\* returns total_frames = 0 and estimated_ms = 0 for every integer frame rate,
\* 0 included
C13_ZeroTiming ==
    (/\ last.op = "calculate_timing"
     /\ timing_groups = ZeroTiming
     /\ IsInt(frame_rate))
    => timed = Ok(<<0, 0>>)

\* the estimate of ten zero groups at frame rate 0 has been computed
C13_Witness ==
    /\ last.op = "calculate_timing"
    /\ timing_groups = ZeroTiming
    /\ frame_rate = 0
    /\ timed = Ok(<<0, 0>>)

-----------------------------------------------------------------------------
(* The pattern editing handlers alone: add_voltage, remove_voltage,        *)
(* on_voltage_change and reset_to_default.  Reaching the 40-step cap from  *)
(* the constructed editor takes 36 calls of add_voltage, so the runs start *)
(* from the constructed editor and from editors those handlers have        *)
(* already brought next to, or to, the two ends of the length range.       *)

\* handler calls explored from each starting editor
MaxEditOps == 2

\* n calls of add_voltage(trans_idx)
RECURSIVE AddSteps(_, _, _)
AddSteps(s, trans_idx, n) ==
    LET Again(s1) ==
            IF s1.result # "ok" THEN s1 ELSE AddSteps(s1, trans_idx, n - 1)
    IN  IF n = 0 THEN s ELSE Again(add_voltage(s, trans_idx))

\* n calls of remove_voltage(trans_idx, 0)
RECURSIVE RemoveSteps(_, _, _)
RemoveSteps(s, trans_idx, n) ==
    LET Again(s1) ==
            IF s1.result # "ok" THEN s1 ELSE RemoveSteps(s1, trans_idx, n - 1)
    IN  IF n = 0 THEN s ELSE Again(remove_voltage(s, trans_idx, 0))

\* the constructed editor; one with 39 steps on transition 0 and 2 steps on
\* transition 1; one with 40 steps on transition 3 and 1 step on transition 2
EditStarts ==
    { <<Constructed, "__init__", <<>>>>,
      <<RemoveSteps(AddSteps(Constructed, 0, 35), 1, 2), "remove_voltage", <<1, 0>>>>,
      <<RemoveSteps(AddSteps(Constructed, 3, 36), 2, 3), "remove_voltage", <<2, 0>>>> }

\* the step indices and names offered to the handlers: the first step, a
\* middle or last one, and one that only a pattern of four or more steps has
EditSteps == {0, 1, 3}

\* the steps whose combobox is changed
ChangedSteps == {0, 3}

EditNames == {"VSL", "VSH2"}

InitEdit ==
    \E start \in EditStarts :
        /\ IsState(start[1])
        /\ calls = <<[op |-> start[2], args |-> start[3],
                      result |-> start[1].result]>>

NextEdit ==
    \/ Within(MaxEditOps) /\ \E t \in Transitions : AddVoltage(t)
    \/ Within(MaxEditOps) /\ \E t \in Transitions, v \in EditSteps :
                                 RemoveVoltage(t, v)
    \/ Within(MaxEditOps) /\ \E t \in Transitions, v \in ChangedSteps,
                                    n \in EditNames :
                                 OnVoltageChange(t, v, n)
    \/ Within(MaxEditOps) /\ \E confirmed \in BOOLEAN : ResetToDefault(confirmed)

SpecEdit == InitEdit /\ [][NextEdit]_vars

-----------------------------------------------------------------------------
(* Claims about the pattern editing handlers, checked under SpecEdit.      *)

\* C9: starting from the constructed model, after any sequence of
\* add_voltage, remove_voltage, on_voltage_change and reset_to_default calls
\* on any transitions, every transition's pattern has at least 1 and at most
\* 40 steps
C9_LengthRange ==
    \A t \in 0..3 :
        /\ t \in DOMAIN voltage_patterns
        /\ 1 <= Len(voltage_patterns[t])
        /\ Len(voltage_patterns[t]) <= 40

\* add_voltage has been called on a pattern of 40 steps and remove_voltage on
\* a pattern of 1 step
C9_Witness ==
    /\ \E t \in 0..3 : Len(voltage_patterns[t]) = 40
    /\ \E t \in 0..3 : Len(voltage_patterns[t]) = 1
    /\ \E k \in 2..Len(calls) : calls[k].op = "add_voltage"
    /\ \E k \in 2..Len(calls) : calls[k].op = "remove_voltage"

\* C10: add_voltage on a transition whose pattern has 40 steps, and
\* remove_voltage on a transition whose pattern has exactly 1 step, are
\* no-ops: the four patterns, the timing groups, the frame rate, the voltage
\* levels and so the encoded LUT are unchanged, and no exception is raised
C10_NoOpAtLimits ==
    [][ LET call == last'
            AtLimit ==
                \/ /\ call.op = "add_voltage"
                   /\ Len(voltage_patterns[call.args[1]]) = 40
                \/ /\ call.op = "remove_voltage"
                   /\ Len(voltage_patterns[call.args[1]]) = 1
        IN  (calls' # calls /\ AtLimit) =>
                /\ voltage_patterns' = voltage_patterns
                /\ timing_groups' = timing_groups
                /\ frame_rate' = frame_rate
                /\ voltages' = voltages
                /\ voltage_pattern_to_lut(voltage_patterns', timing_groups',
                                          frame_rate', voltages')
                     = voltage_pattern_to_lut(voltage_patterns, timing_groups,
                                              frame_rate, voltages)
                /\ call.result = "noop"
      ]_vars

\* both no-ops have happened: add_voltage on a pattern of 40 steps and
\* remove_voltage on a pattern of 1 step
C10_Witness ==
    /\ Len(voltage_patterns[3]) = 40
    /\ Len(voltage_patterns[2]) = 1
    /\ Len(calls) = 3
    /\ \E j, k \in 2..3 :
           /\ calls[j].op = "add_voltage" /\ calls[j].result = "noop"
           /\ calls[k].op = "remove_voltage" /\ calls[k].result = "noop"

-----------------------------------------------------------------------------
(* Claims about the whole editor, checked under Spec.                      *)

\* C2: in every state reachable by any sequence of editor operations
\* (add_voltage, remove_voltage, on_voltage_change, on_timing_change,
\* on_framerate_change, on_voltage_setting_change, reset_to_default,
\* load_from_file), voltage_pattern_to_lut returns a sequence of exactly 112
\* entries
C2_AlwaysEncodes ==
    LET Whole(lut) == lut.ok /\ Len(lut.value) = 112
    IN  Whole(voltage_pattern_to_lut(voltage_patterns, timing_groups,
                                     frame_rate, voltages))

-----------------------------------------------------------------------------
(* The numeric field handlers alone: on_timing_change,                     *)
(* on_framerate_change and on_voltage_setting_change, called with typed    *)
(* text from the constructed editor.                                       *)

\* handler calls explored from the constructed editor
MaxFieldOps == 2

NextFields ==
    \/ Within(MaxFieldOps) /\ \E g \in EditGroups, i \in EditFields,
                                    text \in TimingTexts : OnTimingChange(g, i, text)
    \/ Within(MaxFieldOps) /\ \E text \in FrameRateTexts : OnFramerateChange(text)
    \/ Within(MaxFieldOps) /\ \E name \in EditVoltages, text \in VoltageTexts :
                                  OnVoltageSettingChange(name, text)

SpecFields == Init /\ [][NextFields]_vars

-----------------------------------------------------------------------------
(* Claims about the numeric field handlers, checked under SpecFields.      *)

\* C14: in every state reachable by any sequence of timing-field, frame-rate
\* and voltage-level edits with arbitrary typed text (integers below 0 or
\* above 255 included), every timing-group field, the frame rate and every
\* voltage level held by the model is an integer in 0..255, and so is each of
\* the 112 encoded LUT entries
C14_ByteFields ==
    /\ \A g \in 1..Len(timing_groups) :
           \A i \in 1..Len(timing_groups[g]) : timing_groups[g][i] \in 0..255
    /\ frame_rate \in 0..255
    /\ \A n \in DOMAIN voltages : voltages[n] \in 0..255
    /\ encoded.ok
    /\ Len(encoded.value) = 112
    /\ \A i \in 0..111 : LutByte(encoded.value, i) \in 0..255

\* C15: when the text of a timing field, of the frame-rate field or of a
\* voltage-level field does not parse as an integer (the empty text
\* included), the corresponding model value after on_timing_change,
\* on_framerate_change or on_voltage_setting_change is exactly the value it
\* had before: no zero or other default is applied
C15_ParseFailureKeeps ==
    [][ LET call == last'
            Hex(text) == StartsWith(text, "0x") \/ StartsWith(text, "0X")
            VoltageParses(text) ==
                IF Hex(Strip(text)) THEN ParseHex(Strip(text)).ok
                ELSE ParseInt(Strip(text)).ok
        IN  calls' # calls =>
                /\ (call.op = "on_timing_change" /\ ~ParseInt(call.args[3]).ok)
                   => timing_groups'[call.args[1] + 1][call.args[2] + 1]
                          = timing_groups[call.args[1] + 1][call.args[2] + 1]
                /\ (call.op = "on_framerate_change" /\ ~ParseInt(call.args[1]).ok)
                   => frame_rate' = frame_rate
                /\ (call.op = "on_voltage_setting_change"
                        /\ ~VoltageParses(call.args[2]))
                   => voltages'[call.args[1]] = voltages[call.args[1]]
      ]_vars

-----------------------------------------------------------------------------
(* Saving and loading back: the editing handlers bring the editor to a     *)
(* model, save_to_file writes it and load_from_file reads the written      *)
(* document.  The runs start from the editors of EditStarts.               *)

\* editing calls explored from each starting editor before the save
MaxSaveEdits == 1

NextSave ==
    \/ /\ file = <<>> /\ Within(MaxSaveEdits)
       /\ \/ \E t \in Transitions : AddVoltage(t)
          \/ \E t \in Transitions, v \in EditSteps : RemoveVoltage(t, v)
          \/ \E t \in Transitions, n \in EditNames : OnVoltageChange(t, 0, n)
          \/ \E g \in EditGroups, i \in EditFields, text \in TimingTexts :
                 OnTimingChange(g, i, text)
          \/ \E text \in FrameRateTexts : OnFramerateChange(text)
          \/ \E name \in EditVoltages, text \in VoltageTexts :
                 OnVoltageSettingChange(name, text)
          \/ ResetToDefault(TRUE)
    \/ file = <<>> /\ Within(MaxSaveEdits + 1)
                   /\ \E chosen \in BOOLEAN, written \in Writes :
                          SaveToFile(chosen, written)
    \/ file # <<>> /\ last.op = "save_to_file" /\ LoadFromFile(TRUE, file[1])

SpecSave == InitEdit /\ [][NextSave]_vars

-----------------------------------------------------------------------------
(* Claims about saving and loading back, checked under SpecSave.           *)

\* C16: for every model M reached by the editing handlers, save_to_file of M
\* followed by load_from_file of the saved document ends as loaded, with the
\* transition keys 0..3 (the int keys written as text and read back as ints),
\* and voltage_pattern_to_lut of the loaded model returns, entry for entry,
\* what it returns for M
C16_SaveLoadRoundTrip ==
    [][ (/\ calls' # calls
         /\ last.op = "save_to_file"
         /\ last.result = "saved"
         /\ last'.op = "load_from_file"
         /\ last'.args = <<TRUE, file[1]>>)
        => /\ last'.result = "loaded"
           /\ DOMAIN voltage_patterns' = 0..3
           /\ voltage_pattern_to_lut(voltage_patterns', timing_groups',
                                     frame_rate', voltages').ok
           /\ voltage_pattern_to_lut(voltage_patterns', timing_groups',
                                     frame_rate', voltages')
                = voltage_pattern_to_lut(voltage_patterns, timing_groups,
                                         frame_rate, voltages)
      ]_vars

\* a model with a 40-step pattern, a 1-step pattern and a timing field of 300
\* has been saved and loaded back
C16_Witness ==
    /\ Len(calls) = 4
    /\ calls[2].op = "on_timing_change"
    /\ calls[3].op = "save_to_file" /\ calls[3].result = "saved"
    /\ last.op = "load_from_file" /\ last.result = "loaded"
    /\ Len(voltage_patterns[3]) = 40
    /\ Len(voltage_patterns[2]) = 1
    /\ timing_groups[1][1] = 300
    /\ encoded.ok
    /\ LutByte(encoded.value, 50) = 300

-----------------------------------------------------------------------------
(* Claims about load_from_file, checked under Spec.                        *)

\* C17: loading a document that lacks one of the four top-level fields, or
\* names a voltage outside VSS, VSH1, VSL, VSH2 in a pattern, or holds a
\* pattern of fewer than 1 or more than 40 steps, or holds a numeric field
\* that is not an integer, ends with the result "failed".
C17_MalformedRejected ==
    LET Malformed(doc) ==
            \/ doc.fields # AllFields
            \/ \E k \in DOMAIN doc.voltage_patterns :
                   \/ \E i \in 1..Len(doc.voltage_patterns[k]) :
                          doc.voltage_patterns[k][i] \notin VoltageNames
                   \/ Len(doc.voltage_patterns[k]) \notin 1..MaxSteps
            \/ \E g \in 1..Len(doc.timing_groups) :
                   \E f \in 1..Len(doc.timing_groups[g]) :
                       ~IsInt(doc.timing_groups[g][f])
            \/ ~IsInt(doc.frame_rate)
            \/ \E n \in DOMAIN doc.voltages : ~IsInt(doc.voltages[n])
    IN  (/\ last.op = "load_from_file"
         /\ last.args[1]
         /\ Malformed(last.args[2]))
        => last.result = "failed"

\* C18: a load that ends with the result "failed" leaves voltage_patterns,
\* timing_groups, frame_rate and voltages exactly as they were before the
\* call: either all four are replaced or none is.
C18_FailedLoadKeeps ==
    [][ (/\ calls' # calls
         /\ last'.op = "load_from_file"
         /\ last'.result = "failed")
        => /\ voltage_patterns' = voltage_patterns
           /\ timing_groups' = timing_groups
           /\ frame_rate' = frame_rate
           /\ voltages' = voltages
      ]_vars

\* C19: every reachable state holds exactly four patterns keyed 0..3, exactly
\* ten timing groups of five fields each and exactly the five voltage
\* levels, so that voltage_pattern_to_lut and calculate_timing called on it
\* do not raise.
C19_AlwaysWellShaped ==
    /\ DOMAIN voltage_patterns = 0..3
    /\ Len(timing_groups) = 10
    /\ \A g \in 1..10 : Len(timing_groups[g]) = 5
    /\ DOMAIN voltages = {VoltageSettingNames[i] : i \in 1..Len(VoltageSettingNames)}
    /\ voltage_pattern_to_lut(voltage_patterns, timing_groups, frame_rate, voltages).ok
    /\ calculate_timing(timing_groups, frame_rate).ok

-----------------------------------------------------------------------------
(* A claim about names outside VS_REVERSE, checked under SpecEnc.          *)

\* C20: a step whose name is none of VSS, VSH1, VSL, VSH2 is encoded by
\* voltage_pattern_to_lut as the two bits 00, the other steps of the same
\* byte keep the codes of their names, and the call does not fail because of
\* the name: it returns what it returns with VSS in the place of that name.
C20_UnknownAsVSS ==
    LET Known == {"VSS", "VSH1", "VSL", "VSH2"}
        code(name) == CASE name = "VSS"  -> 0
                        [] name = "VSH1" -> 1
                        [] name = "VSL"  -> 2
                        [] name = "VSH2" -> 3
                        [] OTHER         -> 0
        slot(p, b, k) == IF 4 * b + k < Len(p) THEN code(p[4 * b + k + 1]) ELSE 0
        packed(p, b) == slot(p, b, 0) * 64 + slot(p, b, 1) * 16
                            + slot(p, b, 2) * 4 + slot(p, b, 3)
        HasUnknown(p) == \E k \in 1..Len(p) : p[k] \notin Known
        AsVSS(vp) == [t \in DOMAIN vp |->
                         [k \in 1..Len(vp[t]) |->
                             IF vp[t][k] \in Known THEN vp[t][k] ELSE "VSS"]]
    IN  (/\ last.op = "voltage_pattern_to_lut"
         /\ \E t \in DOMAIN voltage_patterns : HasUnknown(voltage_patterns[t]))
        => /\ encoded.ok =>
                  \A t \in 0..3 :
                      HasUnknown(voltage_patterns[t])
                      => \A b \in 0..9 :
                             LutByte(encoded.value, 10 * t + b)
                                 = packed(voltage_patterns[t], b)
           /\ encoded.ok = voltage_pattern_to_lut(AsVSS(voltage_patterns),
                                                  timing_groups, frame_rate,
                                                  voltages).ok

\* [VXX, VSH2, "", VSH1, VSL, vsl, VSH1, VGH] has been encoded to the bytes
\* 0x31 and 0x84: unknown names in each of the four places of a byte give 00
\* and their neighbours keep 11, 01, 10 and 01
C20_Witness ==
    /\ last.op = "voltage_pattern_to_lut"
    /\ encoded.ok
    /\ voltage_patterns[2]
           = <<"VXX", "VSH2", "", "VSH1", "VSL", "vsl", "VSH1", "VGH">>
    /\ LutByte(encoded.value, 20) = 49
    /\ LutByte(encoded.value, 21) = 132

-----------------------------------------------------------------------------
(* A claim about save_to_file when the write is cut short, checked under   *)
(* Spec.                                                                   *)

\* C21: whatever happens while save_to_file writes, the file afterwards holds
\* either what it held before the call or the complete document of the
\* model, never a truncated one.
C21_SaveAllOrNothing ==
    [][ (/\ calls' # calls
         /\ last'.op = "save_to_file")
        => \/ file' = file
           \/ file' = <<Document(Self)>>
      ]_vars

-----------------------------------------------------------------------------
(* update_preview alone: one call of self.update_preview() on an editor    *)
(* that holds any of the encoder's inputs.                                 *)

UpdatePreview ==
    /\ nops < 1
    /\ Becomes(WithPreview(Self), "update_preview", <<>>)

NextPreview == UpdatePreview

SpecPreview == InitEnc /\ [][NextPreview]_vars

-----------------------------------------------------------------------------
(* A claim about the C array text, checked under SpecPreview.              *)

\* C22: the C array text that update_preview builds lists exactly 112 byte
\* values, the i-th of them is LUT entry i for every i in 0..111, and they
\* stand under the section comments in the order patterns 0..3, reserved
\* block, timing groups 0..9, frame rate, voltages, reserved tail.
C22_PreviewMirrorsLut ==
    LET IsByte(token) == StartsWith(token, "0x")
        \* int(token[2:], 16)
        Listed(token) ==
            LET body == SubSeq(token, 3, Len(token))
                neg  == Len(body) > 0 /\ Head(body) = "-"
                v    == DigitsValue(IF neg THEN Tail(body) ELSE body, 16, 0)
            IN  IF neg THEN 0 - v ELSE v
        Bytes(text) == SelectSeq(text, IsByte)
        Mirrors(text, listed, lut) ==
            /\ Len(listed) = 112
            /\ \A i \in 0..111 : Listed(listed[i + 1]) = LutByte(lut, i)
            /\ Len(text) = 134
            /\ text[2] = "// VS L0-L3 (voltage patterns per transition)"
            /\ \A t \in 0..3 :
                   /\ ~IsByte(text[3 + 11 * t])
                   /\ \A b \in 0..9 :
                          text[4 + 11 * t + b] = listed[10 * t + b + 1]
            /\ text[47] = "// L4 (VCOM)"
            /\ \A b \in 0..9 : text[48 + b] = listed[41 + b]
            /\ text[58] = "// TP/RP groups (global timing)"
            /\ \A g \in 0..9 :
                   /\ \A f \in 0..4 :
                          text[59 + 6 * g + f] = listed[51 + 5 * g + f]
                   /\ ~IsByte(text[64 + 6 * g])
            /\ text[119] = "// Frame rate"
            /\ \A f \in 0..4 : text[120 + f] = listed[101 + f]
            /\ text[125] = "// Voltages (VGH, VSH1, VSH2, VSL, VCOM)"
            /\ \A f \in 0..4 : text[126 + f] = listed[106 + f]
            /\ text[131] = "// Reserved"
            /\ text[132] = listed[111] /\ text[133] = listed[112]
    IN  (last.op = "update_preview" /\ last.result = "ok")
        => /\ encoded.ok
           /\ Mirrors(preview_text, Bytes(preview_text), encoded.value)

\* update_preview has listed a LUT whose timing, frame rate and voltage
\* entries all differ, beside a pattern that fills its ten bytes
C22_Witness ==
    /\ last.op = "update_preview"
    /\ last.result = "ok"
    /\ timing_groups = DistinctTiming
    /\ voltages = DistinctVoltages
    /\ frame_rate = 255
    /\ Len(voltage_patterns[2]) = MaxSteps
    /\ preview_text[35] = "0x1B"
    /\ preview_text[59] = "0x01"
    /\ preview_text[117] = "0x32"
    /\ preview_text[120] = "0xFF"
    /\ preview_text[126] = "0x01"
    /\ preview_text[130] = "0x05"

-----------------------------------------------------------------------------
(* Claims about the whole editor, checked under Spec.                      *)

\* C23: in every state reached by edits, resets and loads that load_from_file
\* reported as loaded, the total_frames that calculate_timing returns is the
\* sum over g in 0..9 of (b[50+5g] + b[51+5g] + b[52+5g] + b[53+5g]) *
\* (b[54+5g] + 1) over the entries b that voltage_pattern_to_lut returns in
\* that state.
C23_TimingMatchesLut ==
    LET FromBytes(b, g) ==
            (LutByte(b, 50 + 5 * g) + LutByte(b, 51 + 5 * g)
                 + LutByte(b, 52 + 5 * g) + LutByte(b, 53 + 5 * g))
                * (LutByte(b, 54 + 5 * g) + 1)
        Total(b) ==
            FromBytes(b, 0) + FromBytes(b, 1) + FromBytes(b, 2) + FromBytes(b, 3)
                + FromBytes(b, 4) + FromBytes(b, 5) + FromBytes(b, 6)
                + FromBytes(b, 7) + FromBytes(b, 8) + FromBytes(b, 9)
        Agree(lut, timing) ==
            (lut.ok /\ timing.ok) => timing.value[1] = Total(lut.value)
    IN  (\A k \in 1..Len(calls) : calls[k].result # "failed")
        => Agree(voltage_pattern_to_lut(voltage_patterns, timing_groups,
                                        frame_rate, voltages),
                 calculate_timing(timing_groups, frame_rate))

\* C24: when add_voltage, remove_voltage, on_voltage_change, on_timing_change,
\* on_framerate_change, on_voltage_setting_change, a confirmed
\* reset_to_default or a load_from_file (loaded or failed) has returned, the
\* timing label and the C array text shown are the ones computed from the
\* model as it is then.
C24_PreviewCurrent ==
    LET Changing ==
            \/ last.op \in {"add_voltage", "remove_voltage", "on_voltage_change",
                            "on_timing_change", "on_framerate_change",
                            "on_voltage_setting_change"}
            \/ last.op = "reset_to_default" /\ last.args[1]
            \/ last.op = "load_from_file" /\ last.args[1]
        Text(lut) == CArrayText(lut.value, voltage_patterns, timing_groups)
        Shown(lut, timing) ==
            /\ lut.ok
            /\ timing.ok
            /\ timing_label = TimingLabelText(timing.value)
            /\ Text(lut).ok
            /\ preview_text = Text(lut).value
    IN  Changing
        => Shown(voltage_pattern_to_lut(voltage_patterns, timing_groups,
                                        frame_rate, voltages),
                 calculate_timing(timing_groups, frame_rate))

-----------------------------------------------------------------------------
(* Claims about the pattern editing handlers, checked under SpecEdit.      *)

\* C25: remove_voltage(t, i) on a pattern of n > 1 steps with i < n leaves a
\* pattern of n - 1 steps: the steps before position i stay where they were
\* and the steps after it move down by one, in the same order.
C25_RemoveDeletesStep ==
    [][ LET call == last'
            t    == call.args[1]
            i    == call.args[2]
            n    == Len(voltage_patterns[t])
        IN  (/\ calls' # calls
             /\ call.op = "remove_voltage"
             /\ n > 1
             /\ i < n)
            => /\ Len(voltage_patterns'[t]) = n - 1
               /\ \A k \in 0..(n - 2) :
                      voltage_patterns'[t][k + 1]
                          = IF k < i THEN voltage_patterns[t][k + 1]
                                     ELSE voltage_patterns[t][k + 2]
      ]_vars

\* remove_voltage(0, 1) has taken the second step out of [VSS, VSH1, VSS, VSH1]
C25_Witness ==
    /\ last.op = "remove_voltage"
    /\ last.args = <<0, 1>>
    /\ last.result = "ok"
    /\ Len(calls) = 2
    /\ calls[1].op = "__init__"
    /\ voltage_patterns[0] = <<"VSS", "VSS", "VSH1">>

\* C26: add_voltage(t) on a pattern of n < 40 steps leaves a pattern of n + 1
\* steps whose first n steps are the old ones and whose last step is VSS, and
\* none of the ten LUT bytes of transition t changes.
C26_AddAppendsVSS ==
    [][ LET call == last'
            t    == call.args[1]
            n    == Len(voltage_patterns[t])
        IN  (/\ calls' # calls
             /\ call.op = "add_voltage"
             /\ n < 40)
            => /\ Len(voltage_patterns'[t]) = n + 1
               /\ \A k \in 1..n : voltage_patterns'[t][k] = voltage_patterns[t][k]
               /\ voltage_patterns'[t][n + 1] = "VSS"
               /\ encoded'.ok
               /\ \A b \in 0..9 :
                      LutByte(encoded'.value, 10 * t + b)
                          = LutByte(voltage_pattern_to_lut(
                                        voltage_patterns, timing_groups,
                                        frame_rate, voltages).value,
                                    10 * t + b)
      ]_vars

\* add_voltage(0) has made a pattern of 39 steps one of 40, and its tenth byte
\* is what it was
C26_Witness ==
    /\ last.op = "add_voltage"
    /\ last.args = <<0>>
    /\ last.result = "ok"
    /\ Len(calls) = 2
    /\ Len(voltage_patterns[0]) = 40
    /\ voltage_patterns[0][39] = "VSS"
    /\ voltage_patterns[0][40] = "VSS"
    /\ encoded.ok
    /\ LutByte(encoded.value, 9) = 0
    /\ LutByte(encoded.value, 0) = 17

\* C27: on_voltage_change or remove_voltage called with a step index at or
\* beyond the length of the pattern leaves all four patterns, the timing
\* groups, the frame rate and the voltage levels as they were.
C27_OutOfRangeKeeps ==
    [][ LET call == last'
        IN  (/\ calls' # calls
             /\ call.op \in {"on_voltage_change", "remove_voltage"}
             /\ call.args[2] >= Len(voltage_patterns[call.args[1]]))
            => /\ voltage_patterns' = voltage_patterns
               /\ timing_groups' = timing_groups
               /\ frame_rate' = frame_rate
               /\ voltages' = voltages
      ]_vars

\* remove_voltage and then on_voltage_change have been called with step
\* index 3 on patterns of two or three steps
C27_Witness ==
    /\ Len(calls) = 3
    /\ calls[2].op = "remove_voltage"
    /\ calls[2].args[2] = 3
    /\ calls[2].result = "IndexError"
    /\ Len(voltage_patterns[calls[2].args[1]]) \in 2..3
    /\ calls[3].op = "on_voltage_change"
    /\ calls[3].args[2] = 3
    /\ calls[3].result = "noop"
    /\ Len(voltage_patterns[calls[3].args[1]]) \in 2..3

-----------------------------------------------------------------------------
(* The two queries alone: voltage_pattern_to_lut and calculate_timing      *)
(* called, in any order and repeatedly, on an editor that holds any of a   *)
(* set of models.  Each is modelled as the method call it is: from the     *)
(* object before the call to the object after it, with what it returned.   *)

\* calls explored from each model
MaxQueries == 4

\* calculate_timing that zeroes the RP of the first group once it has counted it
call_calculate_timing_consuming(s) ==
    LET Returned(timing) ==
            [s EXCEPT !.timed = timing,
                      !.timing_groups =
                          IF timing.ok /\ Len(@) >= 1 /\ Len(@[1]) >= 5
                          THEN [@ EXCEPT ![1][5] = 0]
                          ELSE @,
                      !.result = IF timing.ok THEN "ok" ELSE timing.error]
    IN  Returned(calculate_timing(s.timing_groups, s.frame_rate))

\* self.calculate_timing(): it assigns to no attribute of self
call_calculate_timing(s) ==
    LET Returned(timing) ==
            [s EXCEPT !.timed = timing,
                      !.result = IF timing.ok THEN "ok" ELSE timing.error]
    IN  Returned(calculate_timing(s.timing_groups, s.frame_rate))

\* self.voltage_pattern_to_lut(): it fills a new list and assigns to no
\* attribute of self
call_voltage_pattern_to_lut(s) ==
    LET Returned(lut) ==
            [s EXCEPT !.encoded = lut,
                      !.result = IF lut.ok THEN "ok" ELSE lut.error]
    IN  Returned(voltage_pattern_to_lut(s.voltage_patterns, s.timing_groups,
                                        s.frame_rate, s.voltages))

QueryFrameRates == {0, InitFrameRate, NotInt}

QueryVoltages ==
    { InitVoltages, [DistinctVoltages EXCEPT !["VSH2"] = 300, !["VSL"] = NotInt] }

InitQuery ==
    /\ \E vp \in OddPatterns, tg \in EncTimings, fr \in QueryFrameRates,
          vs \in QueryVoltages :
           IsState([Constructed EXCEPT !.voltage_patterns = vp,
                                       !.timing_groups = tg,
                                       !.frame_rate = fr,
                                       !.voltages = vs])
    /\ calls = <<[op |-> "__init__", args |-> <<>>, result |-> "ok"]>>

QueryLut ==
    Becomes(call_voltage_pattern_to_lut(Self), "voltage_pattern_to_lut", <<>>)

QueryTiming ==
    Becomes(call_calculate_timing(Self), "calculate_timing", <<>>)

NextQuery ==
    \/ Within(MaxQueries) /\ QueryLut
    \/ Within(MaxQueries) /\ QueryTiming

SpecQuery == InitQuery /\ [][NextQuery]_vars

-----------------------------------------------------------------------------
(* A claim about the two queries, checked under SpecQuery.                 *)

-----------------------------------------------------------------------------
(* Claims about single edits and the reset, checked under Spec.            *)

\* C29: an edit changes LUT entries of its own section only: add_voltage,
\* remove_voltage and on_voltage_change of transition t none outside
\* 10t..10t+9, on_timing_change of group g none outside 50+5g..54+5g,
\* on_framerate_change none outside 100..104 and on_voltage_setting_change
\* none outside 105..109.
C29_EditsOwnSection ==
    [][ LET call == last'
            Own ==
                CASE call.op \in {"add_voltage", "remove_voltage",
                                  "on_voltage_change"}
                         -> (10 * call.args[1])..(10 * call.args[1] + 9)
                  [] call.op = "on_timing_change"
                         -> (50 + 5 * call.args[1])..(54 + 5 * call.args[1])
                  [] call.op = "on_framerate_change" -> 100..104
                  [] call.op = "on_voltage_setting_change" -> 105..109
                  [] OTHER -> 0..111
            \* luts is <<the LUT before the call, the LUT after it>>
            Elsewhere(luts) ==
                (luts[1].ok /\ luts[2].ok)
                => \A i \in (0..111) \ Own :
                       LutByte(luts[2].value, i) = LutByte(luts[1].value, i)
        IN  (/\ calls' # calls
             /\ call.op \in {"add_voltage", "remove_voltage", "on_voltage_change",
                             "on_timing_change", "on_framerate_change",
                             "on_voltage_setting_change"})
            => \A luts \in {<<voltage_pattern_to_lut(
                                     voltage_patterns, timing_groups,
                                     frame_rate, voltages),
                                 voltage_pattern_to_lut(
                                     voltage_patterns', timing_groups',
                                     frame_rate', voltages')>>} :
                   Elsewhere(luts)
      ]_vars

\* on_timing_change has set RP of group 9 to 7 and on_voltage_change the
\* second step of transition 2 to VSH2: entry 99 and entry 20 have changed
\* and the first byte of transition 0 has not
C29_Witness ==
    /\ Len(calls) = 3
    /\ calls[2].op = "on_timing_change"
    /\ calls[2].args = <<9, 4, "7">>
    /\ calls[3].op = "on_voltage_change"
    /\ calls[3].args = <<2, 1, "VSH2">>
    /\ calls[3].result = "ok"
    /\ encoded.ok
    /\ LutByte(encoded.value, 99) = 7
    /\ LutByte(encoded.value, 20) = 116
    /\ LutByte(encoded.value, 0) = 17

\* C30: after a confirmed reset_to_default, whatever preceded it, the four
\* patterns, the ten timing groups, the frame rate and the five voltage
\* levels are those the editor is constructed with, and the encoded LUT is
\* the LUT of a newly constructed editor.
C30_ResetRestoresDefaults ==
    (last.op = "reset_to_default" /\ last.args[1])
    => /\ voltage_patterns = InitVoltagePatterns
       /\ timing_groups = InitTimingGroups
       /\ frame_rate = InitFrameRate
       /\ voltages = InitVoltages
       /\ voltage_pattern_to_lut(voltage_patterns, timing_groups, frame_rate,
                                 voltages)
            = voltage_pattern_to_lut(InitVoltagePatterns, InitTimingGroups,
                                     InitFrameRate, InitVoltages)

=============================================================================
